---- MODULE Spec2Model ----
(***************************************************************************)
(* Model of the tolerant JSON recovery layer of the career-guidance        *)
(* backend: backend/utils/jsonParser.js (parseJSON and its helpers) and     *)
(* backend/services/aiDashboard.js (generateComparisonInsights and          *)
(* validateComparisonData).                                                 *)
(*                                                                         *)
(* Text is a sequence of tokens.  A token is one punctuation character, or  *)
(* one maximal piece of a word the regular expressions of the source never  *)
(* split: a digit string, a literal (null, true), a key name                *)
(* (rolesSalaries), the markdown fence marker.  Every token that is not   *)
(* punctuation is a run of \w characters.                                   *)
(***************************************************************************)
EXTENDS Integers, Sequences, FiniteSets, TLC

Q == "\""
SQ == "'"
SP == " "
NL == "\n"
\* the markdown fence marker, three backquotes, as one token
FENCE == "<fence>"

\* the backslash
BSL == "\\"

Punct == {"{", "}", "[", "]", ",", ":", Q, SQ, SP, NL, FENCE, BSL}
\* \s of the regular expressions
IsWs(c) == c \in {SP, NL}
\* \w of the regular expressions: every token that is not punctuation
IsWord(c) == c \notin Punct
DigitToks == {"0", "1", "2", "5", "10", "50", "1000", "80000", "120000"}
LiteralToks == {"null", "true", "false"}

Max(a, b) == IF a >= b THEN a ELSE b
Min(a, b) == IF a <= b THEN a ELSE b
MinOf(S) == CHOOSE x \in S : \A y \in S : x <= y
MaxOf(S) == CHOOSE x \in S : \A y \in S : x >= y
Tail2(s, i) == IF i > Len(s) THEN <<>> ELSE SubSeq(s, i, Len(s))

\* String.prototype.repeat
RECURSIVE Repeat(_, _)
Repeat(c, n) == IF n <= 0 THEN <<>> ELSE <<c>> \o Repeat(c, n - 1)

\* first index >= i of s that holds no whitespace (Len(s)+1 when there is none)
RECURSIVE SkipWs(_, _)
SkipWs(s, i) == IF i <= Len(s) /\ IsWs(s[i]) THEN SkipWs(s, i + 1) ELSE i

\* first index >= i of s that holds no word token
RECURSIVE SkipWord(_, _)
SkipWord(s, i) == IF i <= Len(s) /\ IsWord(s[i]) THEN SkipWord(s, i + 1) ELSE i

\* first index >= i of s that holds no digit token
RECURSIVE SkipDigits(_, _)
SkipDigits(s, i) == IF i <= Len(s) /\ s[i] \in DigitToks THEN SkipDigits(s, i + 1) ELSE i

\* first index >= i of s whose token is not c
RECURSIVE SkipRun(_, _, _)
SkipRun(s, i, c) == IF i <= Len(s) /\ s[i] = c THEN SkipRun(s, i + 1, c) ELSE i

\* first index >= i of s whose token is in set C (0 when there is none)
FindIn(s, i, C) ==
    LET M == {j \in i..Len(s) : s[j] \in C}
    IN  IF M = {} THEN 0 ELSE MinOf(M)

\* String.prototype.indexOf / lastIndexOf of a one-token needle, 1-based, 0 for -1
IndexOf(s, c) == FindIn(s, 1, {c})
LastIndexOf(s, c) ==
    LET M == {j \in 1..Len(s) : s[j] = c}
    IN  IF M = {} THEN 0 ELSE MaxOf(M)

\* the number of tokens c in s
CountTok(s, c) == Cardinality({j \in 1..Len(s) : s[j] = c})

\* index of the last token of s at or before i that is not whitespace (0 when
\* there is none)
RECURSIVE LastNonWs(_, _)
LastNonWs(s, i) == IF i < 1 THEN 0 ELSE IF IsWs(s[i]) THEN LastNonWs(s, i - 1) ELSE i

(***************************************************************************)
(* String.prototype.replace with a global regular expression: the scan      *)
(* takes the leftmost match at or after index from, emits the text before   *)
(* it and its replacement, and resumes after the match.  ends[i] is the     *)
(* index of the last token of the match that starts at i (0 when the        *)
(* expression does not match there), repls[i] its replacement.              *)
(***************************************************************************)
RECURSIVE Rewrite(_, _, _, _)
Rewrite(s, from, ends, repls) ==
    LET M == {i \in from..Len(s) : ends[i] > 0}
    IN  IF M = {} THEN Tail2(s, from)
        ELSE LET i == MinOf(M)
             IN  SubSeq(s, from, i - 1) \o repls[i] \o Rewrite(s, ends[i] + 1, ends, repls)

\* .replace(/<fence>json/g, '')
StripFenceJson(s) ==
    Rewrite(s, 1,
            [i \in DOMAIN s |-> IF i < Len(s) /\ s[i] = FENCE /\ s[i + 1] = "json"
                                THEN i + 1 ELSE 0],
            [i \in DOMAIN s |-> <<>>])

\* a replace of the fence marker without the g flag: the first marker alone
StripFenceOnce(s) ==
    LET i == IndexOf(s, FENCE)
    IN  IF i = 0 THEN s ELSE SubSeq(s, 1, i - 1) \o Tail2(s, i + 1)

\* .replace(/<fence>/g, '')
StripFence(s) ==
    Rewrite(s, 1, [i \in DOMAIN s |-> IF s[i] = FENCE THEN i ELSE 0],
            [i \in DOMAIN s |-> <<>>])

extractJSONString(inputText) ==
    LET firstBrace == IndexOf(inputText, "{")
        lastBrace == LastIndexOf(inputText, "}")
    IN  IF firstBrace = 0 \/ lastBrace = 0 \/ lastBrace <= firstBrace
        THEN inputText
        ELSE SubSeq(inputText, firstBrace, lastBrace)

\* /<a>\s*<b>/ matched at index i of s: the index of b, or 0
PairEnd(s, i, a, b) ==
    LET j == SkipWs(s, i + 1)
    IN  IF s[i] = a /\ j <= Len(s) /\ s[j] = b THEN j ELSE 0

\* .replace(/<a>\s*<b>/g, repl) for one-token a and b
ReplacePair(s, a, b, repl) ==
    Rewrite(s, 1, [i \in DOMAIN s |-> PairEnd(s, i, a, b)], [i \in DOMAIN s |-> repl])

\* /([{,]\s*)(\w+)(\s*:)/ matched at index i of s: the index of the colon, or 0
KeyEnd(s, i) ==
    LET j == SkipWs(s, i + 1)
        k == SkipWord(s, j)
        m == SkipWs(s, k)
    IN  IF s[i] \in {"{", ","} /\ k > j /\ m <= Len(s) /\ s[m] = ":" THEN m ELSE 0

\* .replace(/([{,]\s*)(\w+)(\s*:)/g, '$1"$2"$3')
QuoteKeys(s) ==
    Rewrite(s, 1, [i \in DOMAIN s |-> KeyEnd(s, i)],
            [i \in DOMAIN s |->
                LET j == SkipWs(s, i + 1)
                    k == SkipWord(s, j)
                IN  SubSeq(s, i, j - 1) \o <<Q>> \o SubSeq(s, j, k - 1) \o <<Q>>
                        \o SubSeq(s, k, KeyEnd(s, i))])

\* /:\s*'([^']*)'/ matched at index i of s: the index of the closing quote, or 0
SingleQuotedEnd(s, i) ==
    LET j == SkipWs(s, i + 1)
    IN  IF s[i] = ":" /\ j <= Len(s) /\ s[j] = SQ THEN FindIn(s, j + 1, {SQ}) ELSE 0

\* a cleaning pass that leaves single-quoted strings as they are
KeepSingleQuotes(s) == s

\* .replace(/:\s*'([^']*)'/g, ':"$1"')
FixSingleQuotes(s) ==
    Rewrite(s, 1, [i \in DOMAIN s |-> SingleQuotedEnd(s, i)],
            [i \in DOMAIN s |->
                <<":", Q>> \o SubSeq(s, SkipWs(s, i + 1) + 1, SingleQuotedEnd(s, i) - 1)
                    \o <<Q>>])

\* .replace(/:\s*<word>/g, repl): the literal word is one token
ReplaceColonWord(s, w, repl) == ReplacePair(s, ":", w, repl)

\* .replace(/c+c/g, 'cc'): a run of two or more c becomes two
CollapseRun(s, c) ==
    Rewrite(s, 1,
            [i \in DOMAIN s |-> IF s[i] = c /\ SkipRun(s, i, c) > i + 1
                                THEN SkipRun(s, i, c) - 1 ELSE 0],
            [i \in DOMAIN s |-> <<c, c>>])

\* .replace(/}+]/g, '}]')
CollapseBraceBracket(s) ==
    Rewrite(s, 1,
            [i \in DOMAIN s |->
                LET k == SkipRun(s, i, "}")
                IN  IF s[i] = "}" /\ k <= Len(s) /\ s[k] = "]" THEN k ELSE 0],
            [i \in DOMAIN s |-> <<"}", "]">>])

\* .replace(/([^}])\s*$/g, (match, p1) => ...): the match starts at the last
\* token that is not whitespace unless that token is a closing brace
FixTruncatedEnd(s) ==
    LET e == LastNonWs(s, Len(s))
    IN  IF e >= 1 /\ s[e] \in {"{", "[", ",", ":"}
        THEN SubSeq(s, 1, e) \o <<"null">>
        ELSE s

\* .replace(/<a><b>/g, repl): a directly followed by b
ReplaceAdjacent(s, a, b, repl) ==
    Rewrite(s, 1,
            [i \in DOMAIN s |-> IF i < Len(s) /\ s[i] = a /\ s[i + 1] = b THEN i + 1 ELSE 0],
            [i \in DOMAIN s |-> repl])

\* .replace(/<a>(\s*)<b>/g, '<a>,\n$1<b>')
InsertCommaNewline(s, a, b) ==
    Rewrite(s, 1, [i \in DOMAIN s |-> PairEnd(s, i, a, b)],
            [i \in DOMAIN s |->
                <<a, ",", NL>> \o SubSeq(s, i + 1, PairEnd(s, i, a, b) - 1) \o <<b>>])

\* /"<key>"\s*:\s*/ matched at index i of s: the index after the match, or 0
AfterKey(s, i, keys) ==
    IF i + 2 <= Len(s) /\ s[i] = Q /\ s[i + 1] \in keys /\ s[i + 2] = Q
    THEN LET c == SkipWs(s, i + 3)
         IN  IF c <= Len(s) /\ s[c] = ":" THEN SkipWs(s, c + 1) ELSE 0
    ELSE 0

\* /"rolesSalaries"\s*:\s*\[\s*{[^}\]]*$/.test(s)
IncompleteRolesSalaries(s) ==
    \E i \in 1..Len(s) :
        LET p == AfterKey(s, i, {"rolesSalaries"})
            b == SkipWs(s, p + 1)
        IN  /\ p > 0 /\ p <= Len(s) /\ s[p] = "["
            /\ b <= Len(s) /\ s[b] = "{"
            /\ FindIn(s, b + 1, {"}", "]"}) = 0

\* /"requiredSkills"\s*:\s*\[\s*"[^"\]]*$/.test(s)
IncompleteRequiredSkills(s) ==
    \E i \in 1..Len(s) :
        LET p == AfterKey(s, i, {"requiredSkills"})
            b == SkipWs(s, p + 1)
        IN  /\ p > 0 /\ p <= Len(s) /\ s[p] = "["
            /\ b <= Len(s) /\ s[b] = Q
            /\ FindIn(s, b + 1, {Q, "]"}) = 0

DataTypes == {"general", "comparison", "countryComparison", "roleComparison"}

fixComparisonDataStructure(text, type) ==
    LET f1 == IF type \in {"comparison", "countryComparison"}
              THEN InsertCommaNewline(
                       IF IncompleteRolesSalaries(text) THEN text \o <<"}", "]">> ELSE text,
                       "}", "{")
              ELSE text
        f2 == IF type \in {"comparison", "roleComparison"}
              THEN InsertCommaNewline(
                       IF IncompleteRequiredSkills(f1) THEN f1 \o <<Q, "]">> ELSE f1,
                       Q, Q)
              ELSE f1
    IN  f2

\* a balancing step that appends one closer of each kind that is missing
OneCloserEach(s) ==
    Repeat("}", Min(1, CountTok(s, "{") - CountTok(s, "}")))
        \o Repeat("]", Min(1, CountTok(s, "[") - CountTok(s, "]")))

\* the closers the balancing step appends: braces first, then brackets
MissingClosers(s) ==
    Repeat("}", CountTok(s, "{") - CountTok(s, "}"))
        \o Repeat("]", CountTok(s, "[") - CountTok(s, "]"))

Balance(s) == s \o MissingClosers(s)

\* the chain of replaces of cleanText, lines 68-97
FixSyntax(s) ==
    LET r1 == ReplacePair(s, ",", "]", <<"]">>)
        r2 == ReplacePair(r1, ",", "}", <<"}">>)
        r3 == QuoteKeys(r2)
        r4 == FixSingleQuotes(r3)
        r5 == ReplaceColonWord(r4, "undefined", <<":", "null">>)
        r6 == ReplaceColonWord(r5, "NaN", <<":", "0">>)
        r7 == ReplacePair(r6, "}", "{", <<"}", ",", "{">>)
        r8 == ReplacePair(r7, "]", "{", <<"]", ",", "[">>)
        r9 == ReplacePair(r8, "}", "[", <<"}", ",">>)
        r10 == ReplacePair(r9, "]", "[", <<"]", ",">>)
        r11 == CollapseRun(r10, "}")
        r12 == CollapseRun(r11, "]")
        r13 == CollapseBraceBracket(r12)
        r14 == ReplaceAdjacent(r13, "}", "{", <<"}", ",", "{">>)
        r15 == ReplaceAdjacent(r14, "]", "[", <<"]", ",", "[">>)
    IN  FixTruncatedEnd(r15)

\* the variable cleaned of cleanText before the balancing step, lines 62-103
cleaned(inputText, dataType) ==
    LET unfenced == StripFence(StripFenceJson(inputText))
        fixed == FixSyntax(extractJSONString(unfenced))
    IN  IF dataType \in {"comparison", "countryComparison", "roleComparison"}
        THEN fixComparisonDataStructure(fixed, dataType)
        ELSE fixed

cleanText(inputText, dataType) == Balance(cleaned(inputText, dataType))

(***************************************************************************)
(* JSON values and JSON.parse.  A value is <<kind, payload>>: the kinds     *)
(* null, true, false (payload empty), num (its digit tokens), str (its      *)
(* tokens), arr (its elements) and obj (its <<key, value>> pairs in         *)
(* insertion order).                                                        *)
(***************************************************************************)
JNull == <<"null", <<>>>>
\* the value of an option that was not passed, and of a property that is absent
Undefined == <<"undefined", <<>>>>
JTrue == <<"true", <<>>>>
JFalse == <<"false", <<>>>>
JNum(d) == <<"num", d>>
JStr(t) == <<"str", t>>
JArr(e) == <<"arr", e>>
JObj(p) == <<"obj", p>>
Kind(v) == v[1]

\* index of the pair of key k in pairs (0 when there is none)
RECURSIVE PairIndex(_, _, _)
PairIndex(pairs, k, i) ==
    IF i > Len(pairs) THEN 0
    ELSE IF pairs[i][1] = k THEN i ELSE PairIndex(pairs, k, i + 1)

\* obj[k] = v on the pairs of an object: a repeated key keeps its first place
PutPair(pairs, k, v) ==
    LET i == PairIndex(pairs, k, 1)
    IN  IF i = 0 THEN Append(pairs, <<k, v>>)
        ELSE [pairs EXCEPT ![i] = <<k, v>>]

ParseFail == [ok |-> FALSE, v |-> JNull, next |-> 0]
ParseOk(val, n) == [ok |-> TRUE, v |-> val, next |-> n]

RECURSIVE ParseValue(_, _), ParseElems(_, _, _), ParseMembers(_, _, _)

\* the elements of an array after its first bracket or a comma, from index i
ParseElems(s, i, acc) ==
    LET r == ParseValue(s, i)
        j == SkipWs(s, r.next)
    IN  IF ~r.ok \/ j > Len(s) THEN ParseFail
        ELSE IF s[j] = "," THEN ParseElems(s, j + 1, Append(acc, r.v))
        ELSE IF s[j] = "]" THEN ParseOk(JArr(Append(acc, r.v)), j + 1)
        ELSE ParseFail

\* the members of an object after its brace or a comma, from index i
ParseMembers(s, i, acc) ==
    LET k == SkipWs(s, i)
        key == IF k <= Len(s) /\ s[k] = Q THEN ParseValue(s, k) ELSE ParseFail
        c == SkipWs(s, key.next)
        r == IF key.ok /\ c <= Len(s) /\ s[c] = ":" THEN ParseValue(s, c + 1) ELSE ParseFail
        j == SkipWs(s, r.next)
    IN  IF ~r.ok \/ j > Len(s) THEN ParseFail
        ELSE IF s[j] = "," THEN ParseMembers(s, j + 1, PutPair(acc, key.v[2], r.v))
        ELSE IF s[j] = "}" THEN ParseOk(JObj(PutPair(acc, key.v[2], r.v)), j + 1)
        ELSE ParseFail

\* one JSON value starting at the first token of s at or after index i that
\* is not whitespace
ParseValue(s, i) ==
    LET j == SkipWs(s, i)
    IN  IF j > Len(s) THEN ParseFail
        ELSE IF s[j] = "{"
        THEN LET k == SkipWs(s, j + 1)
             IN  IF k <= Len(s) /\ s[k] = "}" THEN ParseOk(JObj(<<>>), k + 1)
                 ELSE ParseMembers(s, j + 1, <<>>)
        ELSE IF s[j] = "["
        THEN LET k == SkipWs(s, j + 1)
             IN  IF k <= Len(s) /\ s[k] = "]" THEN ParseOk(JArr(<<>>), k + 1)
                 ELSE ParseElems(s, j + 1, <<>>)
        ELSE IF s[j] = Q
        THEN LET e == FindIn(s, j + 1, {Q, NL})
             IN  IF e = 0 \/ s[e] = NL THEN ParseFail
                 ELSE ParseOk(JStr(SubSeq(s, j + 1, e - 1)), e + 1)
        ELSE IF s[j] \in DigitToks
        THEN LET run == SkipDigits(s, j)
             IN  IF run - j > 1 /\ s[j] = "0" THEN ParseFail
                 ELSE ParseOk(JNum(SubSeq(s, j, run - 1)), run)
        ELSE IF s[j] \in LiteralToks THEN ParseOk(<<s[j], <<>>>>, j + 1)
        ELSE ParseFail

\* JSON.parse: the value, or a SyntaxError
JSONParse(s) ==
    LET r == ParseValue(s, 1)
    IN  IF r.ok /\ SkipWs(s, r.next) > Len(s)
        THEN [ok |-> TRUE, v |-> r.v]
        ELSE [ok |-> FALSE, v |-> JNull]

(***************************************************************************)
(* The seven methods of parseJSON.  JSON5.parse and jsonrepair are library  *)
(* calls: whether each accepts the cleaned text is an input of the model    *)
(* (json5Ok, repairOk), and the value a library produces is opaque.         *)
(***************************************************************************)
Json5Value == <<"lib", <<"JSON5">>>>
RepairValue == <<"lib", <<"jsonrepair">>>>

\* /[{,]\s*"[^"]+"\s*:(\s*)$/.test(s)
EndsAfterPropertyName(s) ==
    \E i \in 1..Len(s) :
        LET j == SkipWs(s, i + 1)
            k == IF j <= Len(s) /\ s[j] = Q THEN FindIn(s, j + 1, {Q}) ELSE 0
            c == SkipWs(s, k + 1)
        IN  /\ s[i] \in {"{", ","}
            /\ k > j + 1
            /\ c <= Len(s) /\ s[c] = ":"
            /\ SkipWs(s, c + 1) > Len(s)

\* /,\s*$/.test(s)
EndsWithComma(s) == LastNonWs(s, Len(s)) >= 1 /\ s[LastNonWs(s, Len(s))] = ","

\* method 4: the text JSON.parse is given
TruncationFix(cleanedText) ==
    LET f1 == IF EndsAfterPropertyName(cleanedText)
              THEN cleanedText \o <<"null">> ELSE cleanedText
    IN  IF EndsWithComma(f1) THEN SubSeq(f1, 1, LastNonWs(f1, Len(f1)) - 1) ELSE f1

\* /"rolesSalaries"\s*:\s*\[\s*{[^}]*}\s*$/.test(s)
RolesSalariesTail(s) ==
    \E i \in 1..Len(s) :
        LET p == AfterKey(s, i, {"rolesSalaries"})
            b == SkipWs(s, p + 1)
            c == FindIn(s, b + 1, {"}"})
        IN  /\ p > 0 /\ p <= Len(s) /\ s[p] = "["
            /\ b <= Len(s) /\ s[b] = "{"
            /\ c > 0 /\ SkipWs(s, c + 1) > Len(s)

\* /\s*}+\s*]?\s*]?\s*}?\s*$/ matched from index i of s
ClosingRunTail(s, i) ==
    LET j1 == SkipWs(s, i)
        j2 == SkipWs(s, SkipRun(s, j1, "}"))
        j3 == IF j2 <= Len(s) /\ s[j2] = "]" THEN SkipWs(s, j2 + 1) ELSE j2
        j4 == IF j3 <= Len(s) /\ s[j3] = "]" THEN SkipWs(s, j3 + 1) ELSE j3
        j5 == IF j4 <= Len(s) /\ s[j4] = "}" THEN SkipWs(s, j4 + 1) ELSE j4
    IN  j1 <= Len(s) /\ s[j1] = "}" /\ j5 > Len(s)

\* /"(currentCountry|targetCountry)"\s*:\s*{[^}]*}\s*}+\s*]?\s*]?\s*}?\s*$/.test(s)
NestedObjectTail(s) ==
    \E i \in 1..Len(s) :
        LET p == AfterKey(s, i, {"currentCountry", "targetCountry"})
            c == FindIn(s, p + 1, {"}"})
        IN  /\ p > 0 /\ p <= Len(s) /\ s[p] = "{"
            /\ c > 0 /\ ClosingRunTail(s, c + 1)

\* /}+\]+$/.test(s)
EndsBraceBracket(s) ==
    /\ Len(s) >= 2 /\ s[Len(s)] = "]"
    /\ LET a == LastIndexOf(s, "}")
       IN  a > 0 /\ SkipRun(s, a + 1, "]") > Len(s)

\* the scan of method 7 over s from index from, having kept cb closing braces
\* and ck closing brackets: a closer that would exceed the openers before it
\* is removed, and the scan goes on after it
RECURSIVE RemoveExcess(_, _, _, _)
\* a scan that removes nothing
ScanRemovesNothing(s, from, cb, ck) == Tail2(s, from)
RemoveExcess(s, from, cb, ck) ==
    LET i == FindIn(s, from, {"}", "]"})
    IN  IF i = 0 THEN Tail2(s, from)
        ELSE IF s[i] = "}"
        THEN IF cb + 1 > CountTok(SubSeq(s, 1, i - 1), "{")
             THEN SubSeq(s, from, i - 1) \o RemoveExcess(s, i + 1, cb, ck)
             ELSE SubSeq(s, from, i) \o RemoveExcess(s, i + 1, cb + 1, ck)
        ELSE IF ck + 1 > CountTok(SubSeq(s, 1, i - 1), "[")
             THEN SubSeq(s, from, i - 1) \o RemoveExcess(s, i + 1, cb, ck)
             ELSE SubSeq(s, from, i) \o RemoveExcess(s, i + 1, cb, ck + 1)

RemoveExcessClosers(s) == RemoveExcess(s, 1, 0, 0)

MethodNames == <<"JSON.parse", "JSON5", "jsonrepair", "truncation-fixing",
                 "rolesSalaries-fixing", "nested-objects-fixing",
                 "multiple-closing-braces-fixing">>
NumMethods == Len(MethodNames)

Returned(val) == [st |-> "ok", v |-> val, error |-> ""]
Failed(msg) == [st |-> "fail", v |-> JNull, error |-> msg]
Skipped == [st |-> "skip", v |-> JNull, error |-> ""]
OfJSONParse(s) ==
    LET r == JSONParse(s)
    IN  IF r.ok THEN Returned(r.v) ELSE Failed("SyntaxError")

\* The try block of each method on the cleaned text: it returns a value (ok),
\* throws into its own catch (fail), or falls through without either (skip).
\* Method 1: Direct parsing
DirectParsing(cleanedText) == OfJSONParse(cleanedText)
\* Method 2: JSON5 parsing; j5 says whether the library accepted the text
Json5Parsing(cleanedText, j5) ==
    IF j5 THEN Returned(Json5Value) ELSE Failed("JSON5 SyntaxError")
\* Method 3: JSON repair; jr says whether the library could repair the text
JsonRepairParsing(cleanedText, jr) ==
    IF jr THEN Returned(RepairValue) ELSE Failed("JSONRepairError")
\* Method 4: Handle truncated JSON
TruncationFixing(cleanedText) == OfJSONParse(TruncationFix(cleanedText))
\* Method 5: incomplete arrays in rolesSalaries
RolesSalariesFixing(cleanedText) ==
    IF RolesSalariesTail(cleanedText)
    THEN OfJSONParse(Balance(cleanedText \o <<"]">>)) ELSE Skipped
\* Method 6: Handle incomplete nested objects
NestedObjectsFixing(cleanedText) ==
    IF NestedObjectTail(cleanedText) THEN OfJSONParse(Balance(cleanedText)) ELSE Skipped
\* Method 7: Handle multiple closing braces/brackets at the end
MultipleClosingBracesFixing(cleanedText) ==
    IF EndsBraceBracket(cleanedText)
    THEN OfJSONParse(RemoveExcessClosers(cleanedText)) ELSE Skipped

Method(m, cleanedText, j5, jr) ==
    CASE m = 1 -> DirectParsing(cleanedText)
      [] m = 2 -> Json5Parsing(cleanedText, j5)
      [] m = 3 -> JsonRepairParsing(cleanedText, jr)
      [] m = 4 -> TruncationFixing(cleanedText)
      [] m = 5 -> RolesSalariesFixing(cleanedText)
      [] m = 6 -> NestedObjectsFixing(cleanedText)
      [] m = 7 -> MultipleClosingBracesFixing(cleanedText)

\* a logError that records a method whose try block ended without throwing
logErrorOfEveryMethod(log, m, r) ==
    IF r.st # "ok" THEN Append(log, <<MethodNames[m], r.error>>) ELSE log

\* logError: the attempts list after method m ended with outcome r
logError(log, m, r) ==
    IF r.st = "fail" THEN Append(log, <<MethodNames[m], r.error>>) ELSE log

\* const { fallbackData = {} } = options: the default stands in for an option
\* that was not passed
FallbackOf(option) == IF option = Undefined THEN JObj(<<>>) ELSE option

\* a test of the fallback that holds whatever was passed
HasFallbackAlways(fallbackData) == TRUE

\* Object.keys(fallbackData).length > 0, for an object or an array
HasFallback(fallbackData) == Len(fallbackData[2]) > 0

\* a text argument that is no string: cleanText throws on its first replace
NotAString == <<"<undefined>">>

AllFailedError(log) == <<"All JSON parsing methods failed", log>>
TypeErrorOf(what) == <<"TypeError", what>>

\* an outer catch that rethrows whatever fallback was passed
CatchRethrows(err, option) ==
    [returned |-> FALSE, v |-> JNull, error |-> err, by |-> 0]

\* the outer catch of parseJSON, given options.fallbackData as it was passed
Catch(err, option) ==
    LET fallbackData == FallbackOf(option)
    IN  IF HasFallback(fallbackData)
        THEN [returned |-> TRUE, v |-> fallbackData, error |-> <<>>, by |-> 0]
        ELSE [returned |-> FALSE, v |-> JNull, error |-> err, by |-> 0]

\* the methods from m on, in order, stopping at the first that returns
RECURSIVE RunMethods(_, _, _, _, _, _)
RunMethods(m, cleanedText, log, fallbackData, j5, jr) ==
    IF m > NumMethods THEN Catch(AllFailedError(log), fallbackData)
    ELSE LET r == Method(m, cleanedText, j5, jr)
         IN  IF r.st = "ok"
             THEN [returned |-> TRUE, v |-> r.v, error |-> <<>>, by |-> m]
             ELSE RunMethods(m + 1, cleanedText, logError(log, m, r), fallbackData, j5, jr)

\* parseJSON(text, {fallbackData, dataType}) as one call
parseJSON(text, fallbackData, dataType, j5, jr) ==
    IF text = NotAString THEN Catch(TypeErrorOf("text.replace"), fallbackData)
    ELSE RunMethods(1, cleanText(text, dataType), <<>>, fallbackData, j5, jr)

(***************************************************************************)
(* JavaScript values in generateComparisonInsights: the JSON values, plus   *)
(* undefined, plus an array that was given named properties (kind arrx:     *)
(* <<"arrx", elements, pairs>>).                                            *)
(***************************************************************************)
K(name) == <<name>>
Str(name) == JStr(<<name>>)
Num(name) == JNum(<<name>>)

IsArray(v) == Kind(v) \in {"arr", "arrx"}
\* typeof v === 'object' for a value that is not null
IsObjectLike(v) == Kind(v) \in {"obj", "arr", "arrx"}
IsNullish(v) == Kind(v) \in {"null", "undefined"}
\* !!v
Truthy(v) ==
    CASE Kind(v) \in {"null", "undefined", "false"} -> FALSE
      [] Kind(v) = "num" -> v[2] # <<"0">>
      [] Kind(v) = "str" -> v[2] # <<>>
      [] OTHER -> TRUE

\* v[key] for a value that is neither null nor undefined
GetProp(v, key) ==
    LET pairs == IF Kind(v) = "obj" THEN v[2] ELSE IF Kind(v) = "arrx" THEN v[3] ELSE <<>>
        i == PairIndex(pairs, K(key), 1)
    IN  IF i = 0 THEN Undefined ELSE pairs[i][2]

\* v[key] = val for an object or an array
SetProp(v, key, val) ==
    CASE Kind(v) = "obj" -> JObj(PutPair(v[2], K(key), val))
      [] Kind(v) = "arr" -> <<"arrx", v[2], <<<<K(key), val>>>>>>
      [] Kind(v) = "arrx" -> <<"arrx", v[2], PutPair(v[3], K(key), val)>>

\* one entry of missingFields: a path and the detail interpolated into it
Missing(path, detail) == <<path, detail>>

\* the forEach over topCities: the entries it pushes, and the cities with
\* rolesSalaries initialised where it was no array
RECURSIVE CheckCities(_, _, _, _)
CheckCities(cities, i, path, acc) ==
    IF i > Len(cities) THEN acc
    ELSE LET city == cities[i]
         IN  IF ~Truthy(city) \/ ~IsObjectLike(city)
             THEN CheckCities(cities, i + 1, path,
                      [acc EXCEPT !.missing = Append(@, Missing(path \o ".topCities[] is not a valid object", ToString(i - 1)))])
             ELSE IF ~IsArray(GetProp(city, "rolesSalaries"))
             THEN CheckCities(cities, i + 1, path,
                      [missing |-> Append(acc.missing, Missing(path \o ".topCities[].rolesSalaries is not an array", ToString(i - 1))),
                       cities |-> [acc.cities EXCEPT ![i] = SetProp(city, "rolesSalaries", JArr(<<>>))]])
             ELSE CheckCities(cities, i + 1, path, acc)

\* the checks of one country of countrySalaryComparison (lines 266-288 and
\* 291-313): what they push, and the country object after them
CheckCountry(country, expected, path) ==
    IF ~Truthy(country) THEN [missing |-> <<Missing(path, "")>>, v |-> country]
    ELSE LET m1 == IF GetProp(country, "name") # JStr(expected)
                   THEN <<Missing(path \o ".name", expected[1])>> ELSE <<>>
             top == GetProp(country, "topCities")
         IN  IF ~IsArray(top) \/ Len(top[2]) = 0
             THEN [missing |-> Append(m1, Missing(path \o ".topCities", "")), v |-> country]
             ELSE LET c == CheckCities(top[2], 1, path, [missing |-> <<>>, cities |-> top[2]])
                  IN  [missing |-> m1 \o c.missing,
                       v |-> IF c.cities = top[2] THEN country
                             ELSE SetProp(country, "topCities", [top EXCEPT ![2] = c.cities])]

\* the checks of one role of roleComparison (lines 321-332 and 335-346)
CheckRole(role, expected, path) ==
    IF ~Truthy(role) THEN <<Missing(path, "")>>
    ELSE (IF GetProp(role, "title") # JStr(expected)
          THEN <<Missing(path \o ".title", expected[1])>> ELSE <<>>)
         \o (IF ~IsArray(GetProp(role, "requiredSkills"))
                \/ Len(GetProp(role, "requiredSkills")[2]) = 0
             THEN <<Missing(path \o ".requiredSkills", "")>> ELSE <<>>)

validateComparisonData(data, currentCountry, targetCountry, currentRole, targetRole) ==
    IF ~Truthy(data)
    THEN [isComplete |-> FALSE, missingFields |-> <<Missing("entire data structure", "")>>,
          data |-> data]
    ELSE LET csc == GetProp(data, "countrySalaryComparison")
             cur == CheckCountry(GetProp(csc, "currentCountry"), currentCountry,
                                 "countrySalaryComparison.currentCountry")
             tgt == CheckCountry(GetProp(csc, "targetCountry"), targetCountry,
                                 "countrySalaryComparison.targetCountry")
             mCountry == IF ~Truthy(csc) THEN <<Missing("countrySalaryComparison", "")>>
                         ELSE cur.missing \o tgt.missing
             csc2 == IF ~Truthy(csc) THEN csc
                     ELSE LET a == IF cur.v = GetProp(csc, "currentCountry") THEN csc
                                   ELSE SetProp(csc, "currentCountry", cur.v)
                          IN  IF tgt.v = GetProp(csc, "targetCountry") THEN a
                              ELSE SetProp(a, "targetCountry", tgt.v)
             rc == GetProp(data, "roleComparison")
             mRole == IF ~Truthy(rc) THEN <<Missing("roleComparison", "")>>
                      ELSE CheckRole(GetProp(rc, "currentRole"), currentRole, "roleComparison.currentRole")
                           \o CheckRole(GetProp(rc, "targetRole"), targetRole, "roleComparison.targetRole")
                           \o (IF ~IsArray(GetProp(rc, "skillGaps"))
                               THEN <<Missing("roleComparison.skillGaps", "")>> ELSE <<>>)
                           \o (IF ~IsArray(GetProp(rc, "transferableSkills"))
                               THEN <<Missing("roleComparison.transferableSkills", "")>> ELSE <<>>)
             sea == GetProp(data, "salaryExpectationAnalysis")
             mSalary == IF ~Truthy(sea) THEN <<Missing("salaryExpectationAnalysis", "")>>
                        ELSE (IF Kind(GetProp(sea, "isRealistic")) \notin {"true", "false"}
                              THEN <<Missing("salaryExpectationAnalysis.isRealistic", "")>> ELSE <<>>)
                             \o (IF Kind(GetProp(sea, "percentile")) # "num"
                                 THEN <<Missing("salaryExpectationAnalysis.percentile", "")>> ELSE <<>>)
                             \o (IF ~Truthy(GetProp(sea, "recommendation"))
                                 THEN <<Missing("salaryExpectationAnalysis.recommendation", "")>> ELSE <<>>)
             missingFields == mCountry \o mRole \o mSalary
         IN  [isComplete |-> Len(missingFields) = 0,
              missingFields |-> missingFields,
              data |-> IF csc2 = csc THEN data ELSE SetProp(data, "countrySalaryComparison", csc2)]

\* Maximum number of retries
MAX_RETRIES == 3

\* the section generateComparisonInsights gives a missing roleComparison
DefaultRole(title) ==
    JObj(<< <<K("title"), JStr(title)>>, <<K("requiredSkills"), JArr(<<>>)>>,
            <<K("avgSalary"), Num("0")>>, <<K("growthOutlook"), Str("Neutral")>>,
            <<K("demandLevel"), Str("Medium")>> >>)
DefaultRoleComparison(currentRole, targetRole) ==
    JObj(<< <<K("currentRole"), DefaultRole(currentRole)>>,
            <<K("targetRole"), DefaultRole(targetRole)>>,
            <<K("skillGaps"), JArr(<<>>)>>, <<K("transferableSkills"), JArr(<<>>)>> >>)
\* the section it gives a missing salaryExpectationAnalysis
DefaultSalaryAnalysis ==
    JObj(<< <<K("isRealistic"), JTrue>>, <<K("differenceFromMedian"), Num("0")>>,
            <<K("percentile"), Num("50")>>,
            <<K("recommendation"), Str("No salary analysis available. Please try again later.")>> >>)
\* Meta with the retries counted instead of the attempts
MetaCountsRetries(attempts, isComplete) ==
    JObj(<< <<K("generatedAt"), Str("now")>>, <<K("source"), Str("Gemini AI")>>,
            <<K("attempts"), Num(ToString(attempts - 1))>>,
            <<K("isComplete"), IF isComplete THEN JTrue ELSE JFalse>> >>)
Meta(attempts, isComplete) ==
    JObj(<< <<K("generatedAt"), Str("now")>>, <<K("source"), Str("Gemini AI")>>,
            <<K("attempts"), Num(ToString(attempts))>>,
            <<K("isComplete"), IF isComplete THEN JTrue ELSE JFalse>> >>)

Threw(err) == [thrown |-> TRUE, v |-> Undefined, error |-> err]
Gave(val) == [thrown |-> FALSE, v |-> val, error |-> <<>>]

\* Backfill that fills roleComparison alone
BackfillRoleOnly(r, key, def) ==
    IF r.thrown \/ key # "roleComparison" THEN r
    ELSE IF IsNullish(r.v) THEN Threw(TypeErrorOf("Cannot read properties of null"))
    ELSE IF Truthy(GetProp(r.v, key)) THEN r
    ELSE IF ~IsObjectLike(r.v) THEN Threw(TypeErrorOf("Cannot create property"))
    ELSE Gave(SetProp(r.v, key, def))
\* if (!v[key]) v[key] = def, in a strict-mode module: reading a property of
\* null throws, and so does creating a property on a primitive
Backfill(r, key, def) ==
    IF r.thrown THEN r
    ELSE IF IsNullish(r.v) THEN Threw(TypeErrorOf("Cannot read properties of null"))
    ELSE IF Truthy(GetProp(r.v, key)) THEN r
    ELSE IF ~IsObjectLike(r.v) THEN Threw(TypeErrorOf("Cannot create property"))
    ELSE Gave(SetProp(r.v, key, def))

\* data._meta = {...}
AttachMeta(r, attempts, isComplete) ==
    IF r.thrown THEN r
    ELSE IF IsNullish(r.v) THEN Threw(TypeErrorOf("Cannot set properties of null"))
    ELSE IF ~IsObjectLike(r.v) THEN Threw(TypeErrorOf("Cannot create property"))
    ELSE Gave(SetProp(r.v, "_meta", Meta(attempts, isComplete)))

\* generateComparisonInsights after its loop, lines 211-247
Finalize(data, attempts, isComplete, currentRole, targetRole) ==
    LET filled == IF isComplete THEN Gave(data)
                  ELSE Backfill(Backfill(Gave(data), "roleComparison",
                                         DefaultRoleComparison(currentRole, targetRole)),
                                "salaryExpectationAnalysis", DefaultSalaryAnalysis)
    IN  AttachMeta(filled, attempts, isComplete)

(***************************************************************************)
(* JSON.stringify without indentation, as tokens.                           *)
(***************************************************************************)
RECURSIVE Stringify(_), StringifyElems(_, _), StringifyPairs(_, _)
StringifyElems(e, i) ==
    IF i > Len(e) THEN <<>>
    ELSE (IF i > 1 THEN <<",">> ELSE <<>>) \o Stringify(e[i]) \o StringifyElems(e, i + 1)
StringifyPairs(p, i) ==
    IF i > Len(p) THEN <<>>
    ELSE (IF i > 1 THEN <<",">> ELSE <<>>) \o <<Q>> \o p[i][1] \o <<Q, ":">>
             \o Stringify(p[i][2]) \o StringifyPairs(p, i + 1)
Stringify(v) ==
    CASE Kind(v) \in LiteralToks -> <<Kind(v)>>
      [] Kind(v) = "num" -> v[2]
      [] Kind(v) = "str" -> <<Q>> \o v[2] \o <<Q>>
      [] Kind(v) \in {"arr", "arrx"} -> <<"[">> \o StringifyElems(v[2], 1) \o <<"]">>
      [] Kind(v) = "obj" -> <<"{">> \o StringifyPairs(v[2], 1) \o <<"}">>

(***************************************************************************)
(* The texts the generation call may answer with in the model of            *)
(* generateComparisonInsights: serialised comparison objects, whole and     *)
(* with sections missing, other JSON values, and the empty text (on which   *)
(* every method of parseJSON fails).  None of them needs a library's        *)
(* answer: method 1 parses it, or the text is empty.                        *)
(***************************************************************************)
Obj1(k1, v1) == JObj(<< <<K(k1), v1>> >>)
Obj2(k1, v1, k2, v2) == JObj(<< <<K(k1), v1>>, <<K(k2), v2>> >>)
Obj3(k1, v1, k2, v2, k3, v3) == JObj(<< <<K(k1), v1>>, <<K(k2), v2>>, <<K(k3), v3>> >>)

GoodCity == Obj2("city", Str("X"), "rolesSalaries", JArr(<<Obj1("role", Str("Dev"))>>))
BareCity == Obj1("city", Str("X"))
CountryOf(name, city) == Obj2("name", Str(name), "topCities", JArr(<<city>>))
CountriesOf(cur, tgt, city) ==
    Obj2("currentCountry", CountryOf(cur, city), "targetCountry", CountryOf(tgt, city))
RoleOf(title) == Obj2("title", Str(title), "requiredSkills", JArr(<<Str("a")>>))
RolesOf(cur, tgt) ==
    JObj(<< <<K("currentRole"), RoleOf(cur)>>, <<K("targetRole"), RoleOf(tgt)>>,
            <<K("skillGaps"), JArr(<<>>)>>, <<K("transferableSkills"), JArr(<<>>)>> >>)
SalaryOf == Obj3("isRealistic", JFalse, "percentile", Num("2"), "recommendation", Str("a"))

Countries == {"US", "IN"}
TheRole == "Dev"

GenValues ==
    {Obj3("countrySalaryComparison", CountriesOf("US", c, GoodCity),
          "roleComparison", RolesOf(TheRole, TheRole),
          "salaryExpectationAnalysis", SalaryOf) : c \in Countries}
    \cup {Obj2("countrySalaryComparison", CountriesOf("US", "US", GoodCity),
               "roleComparison", RolesOf(TheRole, TheRole))}
    \cup {Obj3("countrySalaryComparison", CountriesOf("US", "US", BareCity),
               "roleComparison", RolesOf(TheRole, TheRole),
               "salaryExpectationAnalysis", SalaryOf),
          Obj1("salaryExpectationAnalysis", SalaryOf),
          Obj1("countrySalaryComparison", CountriesOf("US", "US", JNull)),
          Obj2("roleComparison", JNull, "salaryExpectationAnalysis", Num("0")),
          JObj(<<>>), JArr(<<>>), JNull, JTrue, Num("0"), Str("a")}

Fenced(t) == <<FENCE, "json", NL>> \o t \o <<NL, FENCE>>

GenTexts ==
    {Stringify(v) : v \in GenValues}
    \cup {Fenced(Stringify(Obj1("salaryExpectationAnalysis", SalaryOf))), <<>>}

\* data = parseJSON(text, { verbose: true }) for each text of GenTexts: the
\* default fallback {} and dataType 'general'; the libraries reject the empty
\* text and are not reached on the others
GenOutcomes == {<<t, parseJSON(t, Undefined, "general", FALSE, FALSE)>> : t \in GenTexts}

GenerationError == <<"GenerationError", "generateContent failed">>
ConfigError == <<"Error", "API key configuration error">>

VARIABLES
    \* generateComparisonInsights
    pc,           \* where the call stands
    apiKeySet,    \* whether GEMINI_API_KEY is set
    targetCountry, \* userData.targetCountry (currentCountry is "US")
    attempts, data, isComplete,   \* its local variables
    calls,        \* generateContent calls issued so far
    inFlight,     \* generateContent calls issued and not yet settled
    waits,        \* the attempts after which the one-second wait was started
    history,      \* how each attempt ended, and the data it left
    result,       \* the value returned
    error,        \* the error thrown to the caller
    \* parseJSON
    text, dataType,   \* its arguments
    fallbackData,     \* options.fallbackData as passed (Undefined when it is not)
    ppc,          \* where the call stands
    cleanedText,
    parseAttempts, \* the attempts list logError fills
    tried,        \* the methods whose try block was entered, with their outcome
    presult,      \* the value returned
    perror,       \* the error thrown
    \* generateIndustryInsights
    ipc,          \* where the call stands
    itext,        \* the text the generation call answered with
    iparsed,      \* the value parseJSON returned
    idata,        \* its local variable data
    ifield,       \* the index in arrayFields the forEach has reached
    iresult,      \* the value returned
    ierror,       \* the message of the error thrown
    \* the generateComparisonData controller
    cstatus,      \* the HTTP status of its response (0 before it answers)
    cbody         \* the body of its response

gvars == <<pc, apiKeySet, targetCountry, attempts, data, isComplete, calls, inFlight,
           waits, history, result, error>>
pvars == <<text, dataType, fallbackData, ppc, cleanedText, parseAttempts, tried,
           presult, perror>>
ivars == <<ipc, itext, iparsed, idata, ifield, iresult, ierror>>
cvars == <<cstatus, cbody>>
vars == <<gvars, pvars, ivars, cvars>>

\* what the libraries can answer for a cleaned text: both reject a text that
\* holds nothing but whitespace; any other answer is left open
LibAnswers(s) == IF SkipWs(s, 1) > Len(s) THEN {FALSE} ELSE BOOLEAN

GInit ==
    /\ pc = "idle"
    /\ apiKeySet \in BOOLEAN
    /\ targetCountry \in Countries
    /\ attempts = 0 /\ data = JNull /\ isComplete = FALSE
    /\ calls = 0 /\ inFlight = 0 /\ waits = <<>> /\ history = <<>>
    /\ result = Undefined /\ error = <<>>

CIdle == cstatus = 0 /\ cbody = Undefined

IIdle ==
    /\ ipc = "idle" /\ itext = <<>> /\ iparsed = Undefined /\ idata = Undefined
    /\ ifield = 0 /\ iresult = Undefined /\ ierror = <<>>

PIdle ==
    /\ text = <<>> /\ dataType = "general" /\ fallbackData = Undefined
    /\ ppc = "idle" /\ cleanedText = <<>> /\ parseAttempts = <<>> /\ tried = <<>>
    /\ presult = Undefined /\ perror = <<>>

Init == GInit /\ PIdle /\ IIdle /\ CIdle

\* the call: the API key check of lines 29-32
Call ==
    /\ pc = "idle"
    /\ IF apiKeySet THEN pc' = "loop" /\ error' = error
       ELSE pc' = "thrown" /\ error' = ConfigError
    /\ UNCHANGED <<apiKeySet, targetCountry, attempts, data, isComplete, calls, inFlight,
                   waits, history, result, pvars, ivars, cvars>>

\* BeginAttempt with a loop test that leaves isComplete out
BeginAttemptIgnoresComplete ==
    /\ pc = "loop" /\ attempts < MAX_RETRIES
    /\ attempts' = attempts + 1
    /\ calls' = calls + 1 /\ inFlight' = inFlight + 1
    /\ pc' = "requesting"
    /\ UNCHANGED <<apiKeySet, targetCountry, data, isComplete, waits, history, result,
                   error, pvars, ivars, cvars>>
\* BeginAttempt with a generation call that is not awaited
BeginAttemptNotAwaited ==
    /\ pc = "loop" /\ attempts < MAX_RETRIES /\ ~isComplete
    /\ attempts' = attempts + 1
    /\ calls' = calls + 1 /\ inFlight' = inFlight + 1
    /\ UNCHANGED <<pc, apiKeySet, targetCountry, data, isComplete, waits, history, result,
                   error, pvars, ivars, cvars>>
\* the loop test holds: attempts++ and model.generateContent(prompt) is awaited
BeginAttempt ==
    /\ pc = "loop" /\ attempts < MAX_RETRIES /\ ~isComplete
    /\ attempts' = attempts + 1
    /\ calls' = calls + 1 /\ inFlight' = inFlight + 1
    /\ pc' = "requesting"
    /\ UNCHANGED <<apiKeySet, targetCountry, data, isComplete, waits, history, result,
                   error, pvars, ivars, cvars>>

\* the generation call answers with a text: parseJSON and
\* validateComparisonData run, and either isComplete is set or the wait starts
GenerateReturns ==
    /\ pc = "requesting"
    /\ \E o \in GenOutcomes :
         LET p == o[2]
             val == validateComparisonData(p.v, <<"US">>, <<targetCountry>>,
                                           <<TheRole>>, <<TheRole>>)
         IN  IF ~p.returned
             THEN /\ data' = data /\ isComplete' = isComplete
                  /\ history' = Append(history, [kind |-> "parse error", data |-> data])
                  /\ waits' = Append(waits, attempts) /\ pc' = "backoff"
             ELSE /\ data' = val.data
                  /\ isComplete' = val.isComplete
                  /\ history' = Append(history,
                        [kind |-> IF val.isComplete THEN "complete" ELSE "incomplete",
                         data |-> val.data])
                  /\ IF val.isComplete THEN waits' = waits /\ pc' = "loop"
                     ELSE waits' = Append(waits, attempts) /\ pc' = "backoff"
    /\ inFlight' = inFlight - 1
    /\ UNCHANGED <<apiKeySet, targetCountry, attempts, calls, result, error, pvars, ivars, cvars>>

\* the generation call throws: the catch of lines 204-208 starts the wait
GenerateFails ==
    /\ pc = "requesting"
    /\ inFlight' = inFlight - 1
    /\ history' = Append(history, [kind |-> "generation error", data |-> data])
    /\ waits' = Append(waits, attempts) /\ pc' = "backoff"
    /\ UNCHANGED <<apiKeySet, targetCountry, attempts, data, isComplete, calls, result,
                   error, pvars, ivars, cvars>>

\* the one-second wait ends and the loop test is made again
BackoffDone ==
    /\ pc = "backoff"
    /\ pc' = "loop"
    /\ UNCHANGED <<apiKeySet, targetCountry, attempts, data, isComplete, calls, inFlight,
                   waits, history, result, error, pvars, ivars, cvars>>

\* the loop test fails: lines 211-247
Finish ==
    /\ pc = "loop" /\ ~(attempts < MAX_RETRIES /\ ~isComplete)
    /\ LET r == Finalize(data, attempts, isComplete, <<TheRole>>, <<TheRole>>)
       IN  IF r.thrown
           THEN pc' = "thrown" /\ error' = r.error /\ result' = result /\ data' = data
           ELSE pc' = "returned" /\ result' = r.v /\ data' = r.v /\ error' = error
    /\ UNCHANGED <<apiKeySet, targetCountry, attempts, isComplete, calls, inFlight,
                   waits, history, pvars, ivars, cvars>>

(***************************************************************************)
(* The generateComparisonData controller (src/unnamed/part_000), which      *)
(* awaits generateComparisonInsights and answers the request.               *)
(***************************************************************************)
\* v?.key
OptGet(v, key) == IF IsNullish(v) THEN Undefined ELSE GetProp(v, key)

\* v?.length > 0
HasLength(v) ==
    CASE Kind(v) \in {"arr", "arrx", "str"} -> Len(v[2]) > 0
      [] Kind(v) = "obj" -> Kind(GetProp(v, "length")) = "num" /\ Truthy(GetProp(v, "length"))
      [] OTHER -> FALSE

\* the forEach of lines 405-411 and 415-421 over topCities, from index i:
\* whether it threw, the cities after it, and whether every rolesSalaries
\* was an array.  Reading a property of null throws, and so does creating a
\* property on a string, a number or a boolean
RECURSIVE FixRolesSalaries(_, _, _)
FixRolesSalaries(cities, i, valid) ==
    IF i > Len(cities) THEN [thrown |-> FALSE, cities |-> cities, valid |-> valid]
    ELSE IF IsNullish(cities[i]) THEN [thrown |-> TRUE, cities |-> cities, valid |-> valid]
    ELSE IF IsArray(GetProp(cities[i], "rolesSalaries"))
    THEN FixRolesSalaries(cities, i + 1, valid)
    ELSE IF ~IsObjectLike(cities[i]) THEN [thrown |-> TRUE, cities |-> cities, valid |-> FALSE]
    ELSE FixRolesSalaries([cities EXCEPT ![i] = SetProp(@, "rolesSalaries", JArr(<<>>))],
                          i + 1, FALSE)

\* one of the two blocks: the country of comparisonData.countrySalaryComparison
\* named which, when it has data
FixCountry(comparisonData, which) ==
    LET csc == GetProp(comparisonData, "countrySalaryComparison")
        country == OptGet(csc, which)
        top == OptGet(country, "topCities")
    IN  IF ~HasLength(top) THEN [thrown |-> FALSE, v |-> comparisonData, valid |-> TRUE]
        ELSE IF ~IsArray(top) THEN [thrown |-> TRUE, v |-> comparisonData, valid |-> TRUE]
        ELSE LET r == FixRolesSalaries(top[2], 1, TRUE)
             IN  [thrown |-> r.thrown, valid |-> r.valid,
                  v |-> IF r.cities = top[2] THEN comparisonData
                        ELSE SetProp(comparisonData, "countrySalaryComparison",
                                 SetProp(csc, which,
                                     SetProp(country, "topCities", [top EXCEPT ![2] = r.cities])))]

Flag(b) == IF b THEN JTrue ELSE JFalse

\* { ...comparisonData }: the own enumerable properties, the indices of an
\* array first
Spread(v) ==
    CASE Kind(v) = "obj" -> v[2]
      [] Kind(v) = "arr" -> [i \in DOMAIN v[2] |-> <<K(ToString(i - 1)), v[2][i]>>]
      [] Kind(v) = "arrx" -> [i \in DOMAIN v[2] |-> <<K(ToString(i - 1)), v[2][i]>>] \o v[3]
      [] OTHER -> <<>>

Response(status, body) == [status |-> status, body |-> body]

\* lines 452-459: the answer to an error thrown inside the inner try
GenerationFailed(message) ==
    Response(500, Obj2("message", JStr(<<"Failed to generate comparison data from Gemini AI">>),
                       "error", JStr(message)))

\* lines 388-451: the answer to the value generateComparisonInsights returned
Answer(comparisonData) ==
    IF ~Truthy(comparisonData)
    THEN Response(500, Obj1("message",
             JStr(<<"Failed to generate comparison data: Empty response from AI service">>)))
    ELSE
    LET csc == GetProp(comparisonData, "countrySalaryComparison")
        hasCurrentCountryData == HasLength(OptGet(OptGet(csc, "currentCountry"), "topCities"))
        hasTargetCountryData == HasLength(OptGet(OptGet(csc, "targetCountry"), "topCities"))
        rc == GetProp(comparisonData, "roleComparison")
        hasRoleComparisonData ==
            Truthy(OptGet(rc, "currentRole")) /\ Truthy(OptGet(rc, "targetRole"))
        hasSalaryExpectationAnalysis ==
            Truthy(GetProp(comparisonData, "salaryExpectationAnalysis"))
        cur == FixCountry(comparisonData, "currentCountry")
        tgt == FixCountry(cur.v, "targetCountry")
        rolesSalariesValid == cur.valid /\ tgt.valid
        isFallbackResponse ==
            \/ ~hasCurrentCountryData /\ ~hasTargetCountryData
            \/ ~hasRoleComparisonData
            \/ ~hasSalaryExpectationAnalysis
            \/ ~rolesSalariesValid
            \/ OptGet(GetProp(comparisonData, "_meta"), "isComplete") = JFalse
    IN  IF cur.thrown \/ tgt.thrown
        THEN GenerationFailed(<<"TypeError">>)
        ELSE IF isFallbackResponse
        THEN Response(207, JObj(PutPair(Spread(tgt.v), K("_meta"),
                 JObj(<< <<K("status"), Str("partial")>>,
                         <<K("message"),
                           JStr(<<"Some data could not be generated. The available data is displayed below.">>)>>,
                         <<K("hasCurrentCountryData"), Flag(hasCurrentCountryData)>>,
                         <<K("hasTargetCountryData"), Flag(hasTargetCountryData)>>,
                         <<K("hasRoleComparisonData"), Flag(hasRoleComparisonData)>>,
                         <<K("hasSalaryExpectationAnalysis"), Flag(hasSalaryExpectationAnalysis)>>,
                         <<K("rolesSalariesValid"), Flag(rolesSalariesValid)>> >>))))
        ELSE Response(200, tgt.v)

\* the request lacks industry, currentCountry, targetCountry, currentRole or
\* targetRole: lines 342-360, before generateComparisonInsights is called
RejectRequest ==
    /\ pc = "idle" /\ cstatus = 0
    /\ \E field \in {"Industry", "Current country", "Target country", "Current role",
                     "Target role"} :
         /\ cstatus' = 400
         /\ cbody' = Obj1("message", JStr(<<field, SP, "is required">>))
    /\ pc' = "rejected"
    /\ UNCHANGED <<apiKeySet, targetCountry, attempts, data, isComplete, calls, inFlight,
                   waits, history, result, error, pvars, ivars>>

\* generateComparisonInsights has returned or thrown: lines 376-459
Respond ==
    /\ pc \in {"returned", "thrown"} /\ cstatus = 0
    /\ LET r == IF pc = "thrown" THEN GenerationFailed(<<error[2]>>) ELSE Answer(result)
       IN  cstatus' = r.status /\ cbody' = r.body
    /\ UNCHANGED <<gvars, pvars, ivars>>

Next ==
    \/ Call \/ BeginAttempt \/ GenerateReturns \/ GenerateFails \/ BackoffDone \/ Finish
    \/ RejectRequest \/ Respond

Spec == Init /\ [][Next]_vars

(***************************************************************************)
(* Properties of generateComparisonInsights, checked under Spec.            *)
(***************************************************************************)
Settled == pc \in {"returned", "thrown"}
MetaOf(v) == GetProp(v, "_meta")
\* every attempt so far got a text from the generation call and a value from
\* parseJSON
AllParsed == \A i \in 1..Len(history) : history[i].kind \in {"complete", "incomplete"}
\* the parsed object of attempt i lacks salaryExpectationAnalysis
LacksSalary(i) ==
    /\ history[i].kind = "incomplete"
    /\ Kind(history[i].data) = "obj"
    /\ GetProp(history[i].data, "salaryExpectationAnalysis") = Undefined

\* C1: at most 3 generation calls are issued in every execution, whatever the
\* attempts raise, and the _meta.attempts of the value returned is the number
\* of generation calls issued, between 1 and 3.
C1_CallsBounded ==
    /\ calls <= 3
    /\ calls = Len(history) + inFlight
    /\ pc = "returned" =>
         /\ calls \in 1..3
         /\ GetProp(MetaOf(result), "attempts") = Num(ToString(calls))

\* C1 witness: a value was returned after three generation calls of which one
\* raised a generation error and one gave a text parseJSON threw on.
C1_Witness ==
    /\ pc = "returned" /\ calls = 3
    /\ \E i, j \in 1..Len(history) :
         history[i].kind = "generation error" /\ history[j].kind = "parse error"

\* C2: an attempt whose data validateComparisonData reports complete is the
\* last one: no generation call follows it, nothing is thrown, and the value
\* returned is that data with _meta.isComplete true and _meta.attempts the
\* index of that attempt (1 for a complete first response).
C2_CompleteStops ==
    \A i \in 1..Len(history) :
        history[i].kind = "complete" =>
            /\ i = Len(history) /\ calls = i /\ inFlight = 0
            /\ pc \in {"loop", "returned"}
            /\ pc = "returned" =>
                 /\ [k \in 1..Len(history[i].data[2]) |-> result[2][k]] = history[i].data[2]
                 /\ Len(result[2]) = Len(history[i].data[2]) + 1
                 /\ GetProp(MetaOf(result), "isComplete") = JTrue
                 /\ GetProp(MetaOf(result), "attempts") = Num(ToString(i))

\* C2 witness: the first response was complete and the call has returned.
C2_Witness ==
    /\ pc = "returned" /\ Len(history) = 1 /\ history[1].kind = "complete"
    /\ GetProp(MetaOf(result), "attempts") = Num("1")

\* C3: after three generation calls that each gave a parseable text whose
\* object lacks salaryExpectationAnalysis, no fourth call is made and nothing
\* is thrown; the value returned has the default salaryExpectationAnalysis,
\* _meta.isComplete false and _meta.attempts 3.
C3_SalaryBackfilled ==
    (Len(history) = 3 /\ \A i \in 1..3 : LacksSalary(i)) =>
        /\ calls = 3 /\ pc # "thrown" /\ pc # "requesting"
        /\ pc = "returned" =>
             /\ GetProp(result, "salaryExpectationAnalysis") =
                    JObj(<< <<K("isRealistic"), JTrue>>,
                            <<K("differenceFromMedian"), Num("0")>>,
                            <<K("percentile"), Num("50")>>,
                            <<K("recommendation"),
                              Str("No salary analysis available. Please try again later.")>> >>)
             /\ GetProp(MetaOf(result), "isComplete") = JFalse
             /\ GetProp(MetaOf(result), "attempts") = Num("3")

\* C3 witness: the call has returned after three such responses.
C3_Witness ==
    /\ pc = "returned" /\ Len(history) = 3 /\ \A i \in 1..3 : LacksSalary(i)

\* C4: a value returned with the attempts exhausted (isComplete false) has
\* all three top-level sections defined: countrySalaryComparison,
\* roleComparison and salaryExpectationAnalysis.
C4_AllSectionsPresent ==
    (pc = "returned" /\ ~isComplete) =>
        /\ GetProp(result, "countrySalaryComparison") # Undefined
        /\ GetProp(result, "roleComparison") # Undefined
        /\ GetProp(result, "salaryExpectationAnalysis") # Undefined

\* C4 failing state: returned after three responses {} with roleComparison
\* and salaryExpectationAnalysis filled in and no countrySalaryComparison.
C4_Failing ==
    /\ pc = "returned" /\ ~isComplete
    /\ \A i \in 1..Len(history) : history[i] = [kind |-> "incomplete", data |-> JObj(<<>>)]
    /\ GetProp(result, "countrySalaryComparison") = Undefined
    /\ GetProp(result, "roleComparison") # Undefined
    /\ GetProp(result, "salaryExpectationAnalysis") # Undefined

\* C5: when every generation call and every parseJSON call of the invocation
\* gave a value, whatever the value, the invocation ends by returning a
\* value that carries _meta, never by throwing.
C5_NeverThrowsForIncompleteness ==
    (Settled /\ apiKeySet /\ AllParsed) =>
        /\ pc = "returned"
        /\ MetaOf(result) # Undefined

\* C5 failing state: three responses parsed to null and the invocation threw
\* a TypeError.
C5_Failing ==
    /\ pc = "thrown" /\ Len(history) = 3
    /\ \A i \in 1..3 : history[i] = [kind |-> "incomplete", data |-> JNull]
    /\ error[1] = "TypeError"

\* C6: when the generation call raised on every attempt, the error the
\* caller receives is the generation call's error.
C6_GenerationErrorSurfaces ==
    (Settled /\ Len(history) = 3
        /\ \A i \in 1..3 : history[i].kind = "generation error") =>
        /\ pc = "thrown"
        /\ error = GenerationError

\* C6 failing state: every attempt raised a generation error and the caller
\* got a TypeError from the reads of data, which is still null.
C6_Failing ==
    /\ pc = "thrown" /\ Len(history) = 3
    /\ \A i \in 1..3 : history[i].kind = "generation error"
    /\ data = JNull /\ error[1] = "TypeError"

(***************************************************************************)
(* parseJSON step by step, on texts drawn from: every text of at most       *)
(* MaxTextLen tokens over ShortAlphabet, the serialisations of the JSON     *)
(* values of depth at most MaxDepth, and the texts of CuratedTexts.         *)
(***************************************************************************)
MaxTextLen == 3
MaxDepth == 2

ShortAlphabet == {"{", "}", "[", "]", ",", "1", "a"}
ShortTexts == UNION {[1..n -> ShortAlphabet] : n \in 0..MaxTextLen}

\* strings whose content the replaces of cleanText can touch
JsonScalars == {Num("1"), Str("a"), JNull, JStr(<<",", "b", ":">>), JStr(<<"}", "{">>)}
RECURSIVE JsonValues(_)
JsonValues(d) ==
    IF d = 0 THEN JsonScalars
    ELSE LET below == JsonValues(d - 1)
         IN  below
             \cup {JArr(<<v>>) : v \in below}
             \cup {JArr(<<v, Num("1")>>) : v \in below}
             \cup {Obj1("a", v) : v \in below}
             \cup {Obj2("a", v, "b", Num("1")) : v \in below}
JsonTexts == {Stringify(v) : v \in JsonValues(MaxDepth)}

CuratedTexts ==
    { \* {"x":{"a":{"b":{"c":1}}},"d":2}
      Stringify(Obj2("x", Obj1("a", Obj1("b", Obj1("c", Num("1")))), "d", Num("2"))),
      \* {name: 'Engineer', salary: 1000}
      <<"{", "name", ":", SP, SQ, "Engineer", SQ, ",", SP, "salary", ":", SP, "1000", "}">>,
      \* hello world
      <<"hello", SP, "world">>,
      \* Here is the data:
      <<"Here", SP, "is", SP, "the", SP, "data", ":">>,
      \* {"a":1} in a fence
      Fenced(Stringify(Obj1("a", Num("1")))),
      \* {"x":"}]","rolesSalaries":[{"a":1}
      <<"{", Q, "x", Q, ":", Q, "}", "]", Q, ",", Q, "rolesSalaries", Q, ":", "[",
        "{", Q, "a", Q, ":", "1", "}">>,
      \* {"currentCountry":{"a" 1}}
      <<"{", Q, "currentCountry", Q, ":", "{", Q, "a", Q, SP, "1", "}", "}">>,
      \* {"rolesSalaries":[{"role":"a"
      <<"{", Q, "rolesSalaries", Q, ":", "[", "{", Q, "role", Q, ":", Q, "a", Q>>,
      \* {"requiredSkills":["a
      <<"{", Q, "requiredSkills", Q, ":", "[", Q, "a">>,
      \* {"r":[{"role":"a","minSalary":1000},{"role":"b","minSalary":1000
      <<"{", Q, "r", Q, ":", "[", "{", Q, "role", Q, ":", Q, "a", Q, ",", Q, "minSalary", Q,
        ":", "1000", "}", ",", "{", Q, "role", Q, ":", Q, "b", Q, ",", Q, "minSalary", Q,
        ":", "1000">>,
      \* {"a":"}[]"}
      <<"{", Q, "a", Q, ":", Q, "}", "[", "]", Q, "}">>,
      \* {"a":""}
      <<"{", Q, "a", Q, ":", Q, Q, "}">>,
      \* {"a":[1
      <<"{", Q, "a", Q, ":", "[", "1">>,
      \* [{"a":1
      <<"[", "{", Q, "a", Q, ":", "1">>,
      NotAString }

\* a text between an opening fence without the word json and a closing fence
FencedPlain(t) == <<FENCE, NL>> \o t \o <<NL, FENCE>>
FencedTexts == {Fenced(t) : t \in JsonTexts} \cup {FencedPlain(t) : t \in JsonTexts}

\* Objects written with bare-word keys and single-quoted strings, each with
\* the value its double-quoted form stands for: t is the text, v the value.
BareScalars ==
    { [t |-> <<SQ, "Engineer", SQ>>, v |-> Str("Engineer")],
      [t |-> <<SQ, "Senior", SP, "Engineer", SQ>>, v |-> JStr(<<"Senior", SP, "Engineer">>)],
      [t |-> <<SQ, SQ>>, v |-> JStr(<<>>)],
      [t |-> <<"1000">>, v |-> Num("1000")] }
\* {name: a} and {name: a, salary: b}, with and without a space after the
\* colons and the comma
BareObjects(first, second) ==
    { [t |-> <<"{", "name", ":">> \o sp \o a.t \o <<"}">>,
       v |-> Obj1("name", a.v)] : a \in first, sp \in {<<>>, <<SP>>} }
    \cup
    { [t |-> <<"{", "name", ":">> \o sp \o a.t \o <<",">> \o sp
                 \o <<"salary", ":">> \o sp \o b.t \o <<"}">>,
       v |-> Obj2("name", a.v, "salary", b.v)] :
           a \in first, b \in second, sp \in {<<>>, <<SP>>} }
BareForms ==
    BareObjects(BareScalars, BareScalars)
        \cup BareObjects(BareObjects(BareScalars, BareScalars), BareScalars)
BareTexts == {b.t : b \in BareForms}

ParseTexts == ShortTexts \cup JsonTexts \cup FencedTexts \cup BareTexts \cup CuratedTexts

\* the fallbackData option: not passed, or an object or array with and
\* without entries
Fallbacks == {Undefined, JObj(<<>>), Obj1("growthRate", Num("0")), JArr(<<>>)}

GIdle ==
    /\ pc = "idle" /\ apiKeySet = TRUE /\ targetCountry = "US"
    /\ attempts = 0 /\ data = JNull /\ isComplete = FALSE
    /\ calls = 0 /\ inFlight = 0 /\ waits = <<>> /\ history = <<>>
    /\ result = Undefined /\ error = <<>>

PInit ==
    /\ GIdle /\ IIdle /\ CIdle
    /\ text \in ParseTexts /\ dataType \in DataTypes /\ fallbackData \in Fallbacks
    /\ ppc = "start" /\ cleanedText = <<>> /\ parseAttempts = <<>> /\ tried = <<>>
    /\ presult = Undefined /\ perror = <<>>

\* Clean with cleanText called before the outer try: its error reaches the
\* caller
CleanOutsideTry ==
    /\ ppc = "start"
    /\ IF text = NotAString
       THEN ppc' = "thrown" /\ perror' = TypeErrorOf("text.replace")
            /\ cleanedText' = cleanedText
       ELSE ppc' = "methods" /\ cleanedText' = cleanText(text, dataType)
            /\ perror' = perror
    /\ UNCHANGED <<text, dataType, fallbackData, parseAttempts, tried, presult, gvars, ivars, cvars>>
\* line 161: const cleanedText = cleanText(text), inside the outer try
Clean ==
    /\ ppc = "start"
    /\ IF text = NotAString
       THEN ppc' = "catch" /\ perror' = TypeErrorOf("text.replace")
            /\ cleanedText' = cleanedText
       ELSE ppc' = "methods" /\ cleanedText' = cleanText(text, dataType)
            /\ perror' = perror
    /\ UNCHANGED <<text, dataType, fallbackData, parseAttempts, tried, presult, gvars, ivars, cvars>>

\* a method step that goes on to the next method after a value was returned
MethodStepGoesOn(m, r) ==
    /\ ppc = "methods" /\ Len(tried) = m - 1
    /\ tried' = Append(tried, [m |-> m, name |-> MethodNames[m], st |-> r.st,
                                v |-> r.v])
    /\ parseAttempts' = logError(parseAttempts, m, r)
    /\ presult' = IF r.st = "ok" THEN r.v ELSE presult
    /\ ppc' = IF m = NumMethods
              THEN (IF r.st = "ok" THEN "returned" ELSE "failed")
              ELSE "methods"
    /\ UNCHANGED <<text, dataType, fallbackData, cleanedText, perror, gvars, ivars, cvars>>

\* method m, entered after methods 1..m-1 ended without a value, ends with
\* outcome r
MethodStep(m, r) ==
    /\ ppc = "methods" /\ Len(tried) = m - 1
    /\ tried' = Append(tried, [m |-> m, name |-> MethodNames[m], st |-> r.st,
                                v |-> r.v])
    /\ parseAttempts' = logError(parseAttempts, m, r)
    /\ IF r.st = "ok" THEN ppc' = "returned" /\ presult' = r.v
       ELSE /\ presult' = presult
            /\ ppc' = IF m = NumMethods THEN "failed" ELSE "methods"
    /\ UNCHANGED <<text, dataType, fallbackData, cleanedText, perror, gvars, ivars, cvars>>

Method1 == MethodStep(1, DirectParsing(cleanedText))
Method2 == \E j5 \in LibAnswers(cleanedText) : MethodStep(2, Json5Parsing(cleanedText, j5))
Method3 == \E jr \in LibAnswers(cleanedText) : MethodStep(3, JsonRepairParsing(cleanedText, jr))
Method4 == MethodStep(4, TruncationFixing(cleanedText))
Method5 == MethodStep(5, RolesSalariesFixing(cleanedText))
Method6 == MethodStep(6, NestedObjectsFixing(cleanedText))
Method7 == MethodStep(7, MultipleClosingBracesFixing(cleanedText))

\* lines 338-339: throw new Error('All JSON parsing methods failed: ...')
ThrowAllFailed ==
    /\ ppc = "failed"
    /\ perror' = AllFailedError(parseAttempts)
    /\ ppc' = "catch"
    /\ UNCHANGED <<text, dataType, fallbackData, cleanedText, parseAttempts, tried,
                   presult, gvars, ivars, cvars>>

\* lines 341-352: the outer catch
OuterCatch ==
    /\ ppc = "catch"
    /\ LET c == Catch(perror, fallbackData)
       IN  IF c.returned THEN ppc' = "returned" /\ presult' = c.v
           ELSE ppc' = "thrown" /\ presult' = presult
    /\ UNCHANGED <<text, dataType, fallbackData, cleanedText, parseAttempts, tried,
                   perror, gvars, ivars, cvars>>

PNext ==
    \/ Clean \/ Method1 \/ Method2 \/ Method3 \/ Method4 \/ Method5 \/ Method6
    \/ Method7 \/ ThrowAllFailed \/ OuterCatch

ParseSpec == PInit /\ [][PNext]_vars

(***************************************************************************)
(* Properties of parseJSON, checked under ParseSpec.                        *)
(***************************************************************************)
PSettled == ppc \in {"returned", "thrown"}
\* every method was entered and none returned a value
AllMethodsFailed == Len(tried) = 7 /\ \A i \in 1..7 : tried[i].st # "ok"
\* the methods whose applicability test holds on the cleaned text
Applies(m) ==
    CASE m = 5 -> RolesSalariesTail(cleanedText)
      [] m = 6 -> NestedObjectTail(cleanedText)
      [] m = 7 -> EndsBraceBracket(cleanedText)
      [] OTHER -> TRUE

\* C7: the methods are entered in the order JSON.parse, JSON5, jsonrepair,
\* truncation fix, rolesSalaries fix, nested-objects fix, closing-braces fix;
\* a method is entered only after every one before it ended without a value;
\* a value a method returns is the value of parseJSON, and no method is
\* entered after it.
C7_OrderedFirstSuccess ==
    /\ Len(tried) <= 7
    /\ \A i \in 1..Len(tried) :
         /\ tried[i].name = <<"JSON.parse", "JSON5", "jsonrepair", "truncation-fixing",
                              "rolesSalaries-fixing", "nested-objects-fixing",
                              "multiple-closing-braces-fixing">>[i]
         /\ \A k \in 1..(i - 1) : tried[k].st # "ok"
         /\ tried[i].st = "ok" =>
              i = Len(tried) /\ ppc = "returned" /\ presult = tried[i].v
    /\ Len(tried) >= 1 => (tried[1].st = "ok") = JSONParse(cleanedText).ok
    /\ Len(tried) >= 4 => (tried[4].st = "ok") = JSONParse(TruncationFix(cleanedText)).ok
    /\ Len(tried) >= 7 =>
         (tried[7].st = "ok") = (EndsBraceBracket(cleanedText)
                                 /\ JSONParse(RemoveExcessClosers(cleanedText)).ok)

\* C7 witness: the seventh method returned the value after the six before
\* it ended without one.
C7_Witness ==
    /\ ppc = "returned" /\ Len(tried) = 7 /\ tried[7].st = "ok"
    /\ presult = tried[7].v

\* C8 (as amended): when every method failed, parseJSON returns the fallback
\* unchanged if it has at least one key or element, and throws otherwise,
\* that is when no fallback was passed or an empty one was.
C8_FallbackWithKeys ==
    (PSettled /\ AllMethodsFailed) =>
        IF fallbackData # Undefined /\ Len(fallbackData[2]) > 0
        THEN ppc = "returned" /\ presult = fallbackData
        ELSE ppc = "thrown" /\ perror[1] = "All JSON parsing methods failed"

\* C8 witness: every method failed and the fallback object passed, which has
\* a key, was returned.
C8_Witness ==
    /\ ppc = "returned" /\ AllMethodsFailed
    /\ fallbackData # Undefined /\ presult = fallbackData

\* C8 (as stated): when every method failed, parseJSON returns the fallback
\* the caller passed, and throws when none was passed.
C8_AsStated ==
    (PSettled /\ AllMethodsFailed) =>
        IF fallbackData # Undefined
        THEN ppc = "returned" /\ presult = fallbackData
        ELSE ppc = "thrown"

\* C9 (as amended): the error parseJSON throws when every method failed
\* carries, in method order, one entry for each method that threw: methods 1
\* to 4 always, methods 5 to 7 only when their test matched the cleaned text.
C9_EntriesOfThrowingMethods ==
    (ppc = "thrown" /\ AllMethodsFailed) =>
        LET threw == SelectSeq(<<1, 2, 3, 4, 5, 6, 7>>, LAMBDA m : Applies(m))
        IN  /\ perror[1] = "All JSON parsing methods failed"
            /\ [k \in 1..Len(perror[2]) |-> perror[2][k][1]] =
                   [k \in 1..Len(threw) |-> tried[threw[k]].name]
            /\ Len(perror[2]) \in 4..7

\* C9 witness: the error thrown has entries for methods 1 to 4 and no entry
\* for a later method.
C9_Witness ==
    /\ ppc = "thrown" /\ AllMethodsFailed
    /\ Len(perror[2]) = 4 /\ perror[2][4][1] = "truncation-fixing"

\* C9 (as stated): the error parseJSON throws when every method failed
\* carries one entry for each of the seven methods.
C9_AsStated ==
    (ppc = "thrown" /\ AllMethodsFailed) => Len(perror[2]) = 7

\* C10: for a text that is valid JSON, parseJSON returns the value JSON.parse
\* gives for it.
C10_ValidJsonRoundTrip ==
    (PSettled /\ text # NotAString /\ JSONParse(text).ok) =>
        ppc = "returned" /\ presult = JSONParse(text).v

\* C10 failing state: for the text [{"a":1}] parseJSON returned the object
\* {"a":1}.
C10_Failing ==
    /\ ppc = "returned"
    /\ text = <<"[", "{", Q, "a", Q, ":", "1", "}", "]">>
    /\ presult = JObj(<< <<K("a"), Num("1")>> >>)

\* the last method entered returned the value of parseJSON, and it is one of
\* the methods that end in JSON.parse of this module
ReturnedByOwnMethod ==
    /\ ppc = "returned" /\ Len(tried) > 0
    /\ tried[Len(tried)].st = "ok" /\ tried[Len(tried)].m \notin {2, 3}

\* parseJSON on JSON.stringify of the value returned, with the same options
Reparsed == parseJSON(Stringify(presult), fallbackData, dataType, FALSE, FALSE)

\* C11: when parseJSON returned a value v for a text, parseJSON on
\* JSON.stringify(v) returns v again (stated for the second calls that
\* JSON.parse decides on the cleaned text, where no library is asked).
C11_Idempotent ==
    (ReturnedByOwnMethod /\ Reparsed.by = 1) => Reparsed.v = presult

\* C11 failing state: for the text {"a":"}[]"} parseJSON returned
\* {"a":"},]"}, and for the serialisation of that value it returns {"a":"}]"}.
C11_Failing ==
    /\ ReturnedByOwnMethod
    /\ text = <<"{", Q, "a", Q, ":", Q, "}", "[", "]", Q, "}">>
    /\ presult = JObj(<< <<K("a"), JStr(<<"}", ",", "]">>)>> >>)
    /\ Reparsed.by = 1
    /\ Reparsed.v = JObj(<< <<K("a"), JStr(<<"}", "]">>)>> >>)

\* a text of words, spaces, commas and colons: no brace, bracket or quote,
\* and at least one word that is no number and no JSON literal
Prose(t) ==
    /\ t # NotAString
    /\ \A i \in 1..Len(t) : t[i] \notin {"{", "}", "[", "]", Q, SQ, FENCE}
    /\ \E i \in 1..Len(t) : IsWord(t[i]) /\ t[i] \notin DigitToks \cup LiteralToks
LibrariesRejected ==
    Len(tried) >= 3 /\ tried[2].st = "fail" /\ tried[3].st = "fail"

IsFenced(t) ==
    /\ t # NotAString /\ Len(t) >= 4
    /\ t[1] = FENCE /\ t[Len(t)] = FENCE /\ t[Len(t) - 1] = NL
    /\ t[2] = NL \/ (t[2] = "json" /\ t[3] = NL /\ Len(t) >= 5)
Unfenced(t) == SubSeq(t, (IF t[2] = NL THEN 3 ELSE 4), Len(t) - 2)
\* the libraries answered j5 and jr in this call, where they were asked
SameLibraryAnswers(j5, jr) ==
    /\ Len(tried) >= 2 => j5 = (tried[2].st = "ok")
    /\ Len(tried) >= 3 => jr = (tried[3].st = "ok")

\* C14: for valid JSON between markdown fences parseJSON ends as it does
\* for the same text without the fences: with the same value, or with the
\* same error.
C14_FencesIgnored ==
    (PSettled /\ IsFenced(text) /\ JSONParse(Unfenced(text)).ok) =>
        \A j5, jr \in BOOLEAN :
            SameLibraryAnswers(j5, jr) =>
                LET r == parseJSON(Unfenced(text), fallbackData, dataType, j5, jr)
                IN  /\ r.returned = (ppc = "returned")
                    /\ r.returned => r.v = presult
                    /\ ~r.returned => r.error = perror

\* C14 witness: an array between plain fences was returned as JSON.parse
\* gives it.
C14_Witness ==
    /\ ppc = "returned" /\ IsFenced(text) /\ text[2] = NL
    /\ Kind(presult) = "arr" /\ Len(presult[2]) = 2
    /\ presult = JSONParse(Unfenced(text)).v

\* the value the double-quoted form of a text of BareTexts stands for
DoubleQuotedValue(t) == (CHOOSE b \in BareForms : b.t = t).v

\* '' occurs in a text of BareTexts
HasEmptyString(t) == \E i \in 1..(Len(t) - 1) : t[i] = SQ /\ t[i + 1] = SQ

TypeOf(v) ==
    CASE Kind(v) \in {"null", "obj", "arr", "arrx"} -> "object"
      [] Kind(v) = "num" -> "number"
      [] Kind(v) = "str" -> "string"
      [] Kind(v) \in {"true", "false"} -> "boolean"
      [] OTHER -> "undefined"

\* String(v), as text
RECURSIVE ToStr(_), JoinElems(_, _)
JoinElems(e, i) ==
    IF i > Len(e) THEN <<>>
    ELSE (IF i > 1 THEN <<",">> ELSE <<>>)
             \o (IF IsNullish(e[i]) THEN <<>> ELSE ToStr(e[i])) \o JoinElems(e, i + 1)
ToStr(v) ==
    CASE Kind(v) \in {"str", "num"} -> v[2]
      [] Kind(v) = "obj" -> <<"[object Object]">>
      [] Kind(v) \in {"arr", "arrx"} -> JoinElems(v[2], 1)
      [] OTHER -> <<Kind(v)>>

\* a || b
OrElse(a, b) == IF Truthy(a) THEN a ELSE b

\* String.prototype.trim
Trim(s) ==
    LET keep == {i \in DOMAIN s : ~IsWs(s[i])}
    IN  IF keep = {} THEN <<>> ELSE SubSeq(s, MinOf(keep), MaxOf(keep))

\* .replace(/\s+/g, ' ')
CollapseWs(s) ==
    Rewrite(s, 1, [i \in DOMAIN s |-> IF IsWs(s[i]) THEN SkipWs(s, i) - 1 ELSE 0],
            [i \in DOMAIN s |-> <<SP>>])

\* lines 568-572: the replace chain on industryOverview and trim()
CleanOverview(s) ==
    Trim(CollapseWs(ReplacePair(ReplacePair(s, BSL, "n", <<NL>>), BSL, Q, <<Q>>)))

NoOverview == JStr(<<"Industry overview information not available.">>)

\* lines 521-536
IndustryFallback ==
    JObj(<< <<K("growthRate"), Num("10")>>,
            <<K("demandLevel"), Str("Medium")>>,
            <<K("topSkills"), JArr(<<>>)>>,
            <<K("marketOutlook"), JStr(<<"Data unavailable due to parsing error">>)>>,
            <<K("industryOverview"),
              JStr(<<"Industry overview information not available due to parsing error.">>)>>,
            <<K("marketDemand"), JArr(<<>>)>>,
            <<K("expectedSalaryRange"),
              Obj3("min", Num("80000"), "max", Num("120000"), "currency", Str("USD"))>>,
            <<K("citySalaryData"), JArr(<<>>)>>,
            <<K("skillBasedBoosts"), JArr(<<>>)>>,
            <<K("topCompanies"), JArr(<<>>)>>,
            <<K("recommendedCourses"), JArr(<<>>)>>,
            <<K("careerPathInsights"), JArr(<<>>)>>,
            <<K("emergingTrends"), JArr(<<>>)>>,
            <<K("quickInsights"), JArr(<<>>)>> >>)

\* line 700
DefaultSalaryRange == Obj3("min", Num("80000"), "max", Num("120000"), "currency", Str("USD"))

\* the errors generateIndustryInsights throws: the message, in the parts the
\* nested catch blocks (lines 704-716) put in front of it
InsightsError(inner) == <<"Failed to generate insights: ">> \o inner
ApiError(inner) == <<"Gemini API error: ">> \o inner
ParseErrorOf(inner) == <<"Failed to parse response: ">> \o inner
EmptyData == <<"Empty data object after parsing">>
CannotCreateProperty(key) == <<"Cannot create property '" \o key \o "'">>

\* lines 559-583: data.industryOverview after the step (data is an object or
\* an array)
Overview(parsed) ==
    LET ov == GetProp(parsed, "industryOverview")
    IN  IF Truthy(ov)
        THEN JStr(CleanOverview(IF TypeOf(ov) = "string" THEN ov[2] ELSE ToStr(ov)))
        ELSE NoOverview

\* lines 586-590
arrayFields ==
    <<"marketDemand", "quickInsights", "topSkills", "citySalaryData", "skillBasedBoosts",
      "topCompanies", "recommendedCourses", "careerPathInsights", "emergingTrends",
      "nextActions">>

\* item && typeof item === 'object'
IsItem(item) == Truthy(item) /\ TypeOf(item) = "object"
\* typeof v === 'number' || typeof v === 'string'
NumberOrString(v) == TypeOf(v) \in {"number", "string"}
\* v is a number, or a string that reads as a number
NumberOrNumericString(v) ==
    \/ TypeOf(v) = "number"
    \/ TypeOf(v) = "string" /\ Len(v[2]) = 1 /\ v[2][1] \in DigitToks

\* a filter that asks for an object and for none of its subfields
KeepAnyItem(item) == IsItem(item)

\* the filter callbacks of lines 603-607, 612-616, 621, 646-649, 655-660,
\* 668-670, 675-677, 682-684, 689-692
KeepQuickInsight(item) ==
    /\ IsItem(item)
    /\ Truthy(GetProp(item, "title")) \/ Truthy(GetProp(item, "name"))
    /\ Truthy(GetProp(item, "type")) \/ Truthy(GetProp(item, "category"))
KeepMarketDemand(item) ==
    /\ IsItem(item) /\ Truthy(GetProp(item, "skill"))
    /\ NumberOrString(GetProp(item, "demandScore"))
KeepCompany(item) == IsItem(item) /\ Truthy(GetProp(item, "name"))
KeepCity(item) ==
    /\ IsItem(item) /\ Truthy(GetProp(item, "city"))
    /\ NumberOrString(GetProp(item, "avgSalary"))
KeepRoleSalary(role) ==
    /\ IsItem(role) /\ Truthy(GetProp(role, "role"))
    /\ NumberOrString(GetProp(role, "minSalary"))
    /\ NumberOrString(GetProp(role, "medianSalary"))
    /\ NumberOrString(GetProp(role, "maxSalary"))
KeepCareerPath(item) ==
    IsItem(item) /\ Truthy(GetProp(item, "title")) /\ Truthy(GetProp(item, "description"))
KeepTrend(item) ==
    IsItem(item) /\ Truthy(GetProp(item, "name")) /\ Truthy(GetProp(item, "description"))
KeepCourse(item) ==
    IsItem(item) /\ Truthy(GetProp(item, "name")) /\ Truthy(GetProp(item, "platform"))
KeepBoost(item) ==
    /\ IsItem(item) /\ Truthy(GetProp(item, "skill"))
    /\ NumberOrString(GetProp(item, "salaryIncrease"))

\* lines 628-638: one role of company.roles as a string
RoleString(role) ==
    IF TypeOf(role) = "string" THEN role
    ELSE IF Truthy(role) /\ TypeOf(role) = "object"
    THEN JStr(ToStr(OrElse(GetProp(role, "name"),
                    OrElse(GetProp(role, "title"),
                    OrElse(GetProp(role, "role"), JStr(Stringify(role)))))))
    ELSE JStr(ToStr(role))

\* lines 622-641: the map callback of topCompanies
FixCompany(company) ==
    LET roles == GetProp(company, "roles")
    IN  IF ~Truthy(roles) \/ ~IsArray(roles)
        THEN SetProp(company, "roles", JArr(<<>>))
        ELSE SetProp(company, "roles",
                     JArr([i \in DOMAIN roles[2] |-> RoleString(roles[2][i])]))

\* lines 649-663: the map callback of citySalaryData
FixCity(city) ==
    LET roles == GetProp(city, "rolesSalaries")
    IN  IF ~Truthy(roles) \/ ~IsArray(roles)
        THEN SetProp(city, "rolesSalaries", JArr(<<>>))
        ELSE SetProp(city, "rolesSalaries", JArr(SelectSeq(roles[2], KeepRoleSalary)))

\* lines 600-694: the switch on the field, for a field that holds an array
FilterField(field, items) ==
    CASE field = "quickInsights" -> SelectSeq(items, KeepQuickInsight)
      [] field = "marketDemand" -> SelectSeq(items, KeepMarketDemand)
      [] field = "topCompanies" ->
            LET kept == SelectSeq(items, KeepCompany)
            IN  [i \in DOMAIN kept |-> FixCompany(kept[i])]
      [] field = "citySalaryData" ->
            LET kept == SelectSeq(items, KeepCity)
            IN  [i \in DOMAIN kept |-> FixCity(kept[i])]
      [] field = "careerPathInsights" -> SelectSeq(items, KeepCareerPath)
      [] field = "emergingTrends" -> SelectSeq(items, KeepTrend)
      [] field = "recommendedCourses" -> SelectSeq(items, KeepCourse)
      [] field = "skillBasedBoosts" -> SelectSeq(items, KeepBoost)
      [] OTHER -> items

\* lines 593-696: one turn of arrayFields.forEach
CheckArrayField(parsed, field) ==
    LET v == GetProp(parsed, field)
    IN  IF ~Truthy(v) \/ ~IsArray(v) THEN SetProp(parsed, field, JArr(<<>>))
        ELSE IF field \in {"topSkills", "nextActions"} THEN parsed
        ELSE SetProp(parsed, field, JArr(FilterField(field, v[2])))

\* lines 699-701
CheckSalaryRange(parsed) ==
    LET r == GetProp(parsed, "expectedSalaryRange")
    IN  IF ~Truthy(r) \/ TypeOf(r) # "object"
        THEN SetProp(parsed, "expectedSalaryRange", DefaultSalaryRange)
        ELSE parsed

(***************************************************************************)
(* The values the generation call may describe in the model of              *)
(* generateIndustryInsights: for each filtered field an object holding that *)
(* field with at most MaxEntries entries, complete and incomplete, a city    *)
(* with at most MaxEntries rolesSalaries, then objects with fields of the   *)
(* wrong kind, a whole object, and the values that are no object.  The text *)
(* is their serialisation, or prose.                                        *)
(***************************************************************************)
MaxEntries == 2

\* entries that name something (key name) and score it (key score): both
\* given, the score as a numeric string, as a string that is no number, as a
\* boolean, one of the two absent, the name empty; and entries that are no
\* object
ScoredEntries(name, score) ==
    { Obj2(name, Str("a"), score, Num("5")),
      Obj2(name, Str("b"), score, Str("50")),
      Obj2(name, Str("c"), score, Str("abc")),
      Obj2(name, Str("d"), score, JTrue),
      Obj1(name, Str("e")),
      Obj1(score, Num("5")),
      Obj2(name, JStr(<<>>), score, Num("5")),
      JNull, Str("a") }
\* entries with two required texts
TextEntries(k1, k2) ==
    { Obj2(k1, Str("a"), k2, Str("x")),
      Obj3(k1, Str("b"), k2, Str("y"), "location", Str("z")),
      Obj1(k1, Str("c")),
      Obj1(k2, Str("x")),
      Obj2(k1, JStr(<<>>), k2, Str("x")),
      JNull, Num("5") }
RoleSalary(role, min, median, max) ==
    JObj(<< <<K("role"), role>>, <<K("minSalary"), min>>, <<K("medianSalary"), median>>,
            <<K("maxSalary"), max>> >>)
RoleSalaries ==
    { RoleSalary(Str("Dev"), Num("1"), Num("2"), Num("5")),
      RoleSalary(Str("QA"), Str("1"), Str("2"), Str("5")),
      RoleSalary(Str("Ops"), Num("1"), Str("abc"), Num("5")),
      Obj3("role", Str("PM"), "minSalary", Num("1"), "medianSalary", Num("2")),
      RoleSalary(JNull, Num("1"), Num("2"), Num("5")) }
CityWith(roles) == Obj3("city", Str("f"), "avgSalary", Num("5"), "rolesSalaries", roles)
Entries(field) ==
    CASE field = "marketDemand" -> ScoredEntries("skill", "demandScore")
      [] field = "skillBasedBoosts" -> ScoredEntries("skill", "salaryIncrease")
      [] field = "citySalaryData" ->
            ScoredEntries("city", "avgSalary")
            \cup { Obj3("city", Str("g"), "avgSalary", Num("5"), "rolesSalaries", Str("a")) }
      [] field = "quickInsights" ->
            TextEntries("title", "type")
            \cup { Obj2("name", Str("n"), "category", Str("x")),
                   Obj2("title", Str("t"), "category", Str("x")) }
      [] field = "topCompanies" ->
            { Obj1("name", Str("a")),
              Obj2("name", Str("b"), "roles",
                   JArr(<<Str("x"), Obj1("title", Str("y")), Num("5"), JNull,
                          Obj1("level", Num("1"))>>)),
              Obj2("name", Str("c"), "roles", Str("x")),
              Obj1("openPositions", Num("5")),
              Obj1("name", JStr(<<>>)),
              JNull, Str("a") }
      [] field = "careerPathInsights" -> TextEntries("title", "description")
      [] field = "emergingTrends" -> TextEntries("name", "description")
      [] field = "recommendedCourses" -> TextEntries("name", "platform")

FilteredFields ==
    {"marketDemand", "quickInsights", "topCompanies", "citySalaryData", "careerPathInsights",
     "emergingTrends", "recommendedCourses", "skillBasedBoosts"}

SeqsUpTo(S, n) == UNION {[1..k -> S] : k \in 0..n}

\* an object with every field of the schema of lines 428-481
WholeInsights ==
    JObj(<< <<K("growthRate"), Num("5")>>,
            <<K("demandLevel"), Str("High")>>,
            <<K("topSkills"), JArr(<<Str("a")>>)>>,
            <<K("marketOutlook"), Str("Positive")>>,
            <<K("industryOverview"), JStr(<<"a", SP, SP, "b", SP>>)>>,
            <<K("marketDemand"), JArr(<<Obj2("skill", Str("a"), "demandScore", Num("5"))>>)>>,
            <<K("expectedSalaryRange"), Obj2("min", Num("1"), "max", Num("2"))>>,
            <<K("citySalaryData"), JArr(<<Obj2("city", Str("a"), "avgSalary", Num("5"))>>)>>,
            <<K("skillBasedBoosts"), JArr(<<Obj2("skill", Str("a"), "salaryIncrease", Num("5"))>>)>>,
            <<K("topCompanies"), JArr(<<Obj1("name", Str("a"))>>)>>,
            <<K("recommendedCourses"), JArr(<<Obj2("name", Str("a"), "platform", Str("x"))>>)>>,
            <<K("careerPathInsights"), JArr(<<Obj2("title", Str("a"), "description", Str("x"))>>)>>,
            <<K("emergingTrends"), JArr(<<Obj2("name", Str("a"), "description", Str("x"))>>)>>,
            <<K("quickInsights"), JArr(<<Obj2("title", Str("a"), "type", Str("x"))>>)>>,
            <<K("nextActions"), JArr(<<Obj2("title", Str("a"), "description", Str("x"))>>)>> >>)

InsightValues ==
    UNION { { Obj1(f, JArr(e)) : e \in SeqsUpTo(Entries(f), MaxEntries) } :
                     f \in FilteredFields }
    \cup { Obj1("citySalaryData", JArr(<<CityWith(JArr(r))>>)) :
               r \in SeqsUpTo(RoleSalaries, MaxEntries) }
    \cup { Obj1(f, v) : f \in FilteredFields \cup {"topSkills", "nextActions"},
                        v \in {Str("a"), JNull, Obj1("a", Num("1"))} }
    \cup { Obj1("expectedSalaryRange", v) : v \in {Num("5"), Str("a"), JNull, JArr(<<>>)} }
    \cup { Obj1("industryOverview", v) :
               v \in {Num("5"), JStr(<<>>), JTrue, JArr(<<Num("1"), JNull, Str("a")>>),
                      Obj1("a", Num("1"))} }
    \cup { WholeInsights, Obj1("growthRate", Num("5")), JObj(<<>>) }
    \cup { JArr(<<>>), JArr(<<Num("1")>>), JNull, JTrue, JFalse, Num("0"), Num("5"),
           JStr(<<>>), Str("abc") }

InsightProse == <<"Here", SP, "is", SP, "the", SP, "data", ":">>
InsightTexts == {Stringify(v) : v \in InsightValues} \cup {InsightProse}

\* lines 539-542: what parseJSON(text, { verbose: true, fallbackData }) can
\* return for a text that is not blank: the value of method 1; failing that,
\* whatever value JSON5.parse or jsonrepair makes of it; failing those, the
\* value of a later method or the fallback
InsightParses ==
    { <<t, parseJSON(t, IndustryFallback, "general", FALSE, FALSE)>> : t \in InsightTexts }
InsightOutcomes ==
    UNION { { <<p[1], v>> : v \in {p[2].v} \cup (IF p[2].by = 1 THEN {} ELSE InsightValues) } :
                p \in InsightParses }

GenerationMessage == <<"generateContent failed">>

IInit ==
    /\ pc = "idle" /\ apiKeySet \in BOOLEAN /\ targetCountry = "US"
    /\ attempts = 0 /\ data = JNull /\ isComplete = FALSE
    /\ calls = 0 /\ inFlight = 0 /\ waits = <<>> /\ history = <<>>
    /\ result = Undefined /\ error = <<>>
    /\ PIdle /\ IIdle /\ CIdle

\* the call: the API key check of lines 386-389, then the prompt is sent
ICall ==
    /\ ipc = "idle"
    /\ IF apiKeySet THEN ipc' = "requesting" /\ ierror' = ierror
       ELSE ipc' = "thrown" /\ ierror' = InsightsError(<<"API key configuration error">>)
    /\ UNCHANGED <<itext, iparsed, idata, ifield, iresult, gvars, pvars, cvars>>

\* model.generateContent (line 508) throws
IGenerateFails ==
    /\ ipc = "requesting"
    /\ ipc' = "thrown" /\ ierror' = InsightsError(ApiError(GenerationMessage))
    /\ UNCHANGED <<itext, iparsed, idata, ifield, iresult, gvars, pvars, cvars>>

\* the generation call answers with a text: parseJSON, and the test of
\* lines 552-554
IGenerateReturns ==
    /\ ipc = "requesting"
    /\ \E o \in InsightOutcomes :
         /\ itext' = o[1] /\ iparsed' = o[2] /\ idata' = o[2]
         /\ IF Truthy(o[2]) THEN ipc' = "overview" /\ ierror' = ierror
            ELSE ipc' = "thrown"
                 /\ ierror' = InsightsError(ApiError(ParseErrorOf(EmptyData)))
    /\ UNCHANGED <<ifield, iresult, gvars, pvars, cvars>>

\* lines 559-583: industryOverview.  The module is in strict mode, where
\* setting a property of a string, a number or a boolean throws a TypeError
IOverview ==
    /\ ipc = "overview"
    /\ IF IsObjectLike(idata)
       THEN /\ idata' = SetProp(idata, "industryOverview", Overview(idata))
            /\ ipc' = "arrays" /\ ifield' = 1 /\ ierror' = ierror
       ELSE /\ ipc' = "thrown" /\ idata' = idata /\ ifield' = ifield
            /\ ierror' = InsightsError(ApiError(ParseErrorOf(
                              CannotCreateProperty("industryOverview"))))
    /\ UNCHANGED <<itext, iparsed, iresult, gvars, pvars, cvars>>

\* one turn of arrayFields.forEach
IArrayField ==
    /\ ipc = "arrays" /\ ifield <= Len(arrayFields)
    /\ idata' = CheckArrayField(idata, arrayFields[ifield])
    /\ ifield' = ifield + 1
    /\ UNCHANGED <<ipc, itext, iparsed, iresult, ierror, gvars, pvars, cvars>>

\* after the forEach: expectedSalaryRange (lines 699-701) and return data
ISalaryRange ==
    /\ ipc = "arrays" /\ ifield > Len(arrayFields)
    /\ idata' = CheckSalaryRange(idata)
    /\ iresult' = CheckSalaryRange(idata)
    /\ ipc' = "returned"
    /\ UNCHANGED <<itext, iparsed, ifield, ierror, gvars, pvars, cvars>>

INext == ICall \/ IGenerateFails \/ IGenerateReturns \/ IOverview \/ IArrayField \/ ISalaryRange

InsightSpec == IInit /\ [][INext]_vars

(***************************************************************************)
(* Properties of generateIndustryInsights, checked under InsightSpec.       *)
(***************************************************************************)
\* the top-level fields of the schema of lines 428-481
SchemaFields ==
    {"growthRate", "demandLevel", "topSkills", "marketOutlook", "industryOverview",
     "marketDemand", "expectedSalaryRange", "citySalaryData", "skillBasedBoosts",
     "topCompanies", "recommendedCourses", "careerPathInsights", "emergingTrends",
     "quickInsights", "nextActions"}
HasField(v, f) == GetProp(v, f) # Undefined

\* C17: the object generateIndustryInsights returns has every top-level
\* field of the schema, whatever object was parsed.
C17_EveryFieldPresent ==
    ipc = "returned" => \A f \in SchemaFields : HasField(iresult, f)

\* C17 failing run: the text {} is parsed by method 1 and the object
\* returned has neither growthRate nor demandLevel nor marketOutlook, while
\* the twelve fields the post-processing sets are there.
C17_Failing ==
    /\ ipc = "returned" /\ itext = <<"{", "}">> /\ iparsed = JObj(<<>>)
    /\ {f \in SchemaFields : ~HasField(iresult, f)}
           = {"growthRate", "demandLevel", "marketOutlook"}

\* the required subfields of the entries of a field (of "rolesSalaries": of
\* the entries of a city's rolesSalaries), after the schema of lines 434-478
\* and the alternatives the filters accept: for each requirement the keys
\* that meet it
RequiredText(field) ==
    CASE field = "marketDemand" -> {{"skill"}}
      [] field = "quickInsights" -> {{"title", "name"}, {"type", "category"}}
      [] field = "topCompanies" -> {{"name"}}
      [] field = "citySalaryData" -> {{"city"}}
      [] field = "rolesSalaries" -> {{"role"}}
      [] field = "careerPathInsights" -> {{"title"}, {"description"}}
      [] field = "emergingTrends" -> {{"name"}, {"description"}}
      [] field = "recommendedCourses" -> {{"name"}, {"platform"}}
      [] field = "skillBasedBoosts" -> {{"skill"}}
RequiredFigure(field) ==
    CASE field = "marketDemand" -> {"demandScore"}
      [] field = "citySalaryData" -> {"avgSalary"}
      [] field = "rolesSalaries" -> {"minSalary", "medianSalary", "maxSalary"}
      [] field = "skillBasedBoosts" -> {"salaryIncrease"}
      [] OTHER -> {}
\* the entry is an object that has every required subfield: a text that is
\* not empty, a figure that is a number or a string
Complete(field, e) ==
    /\ Kind(e) \in {"obj", "arr"}
    /\ \A req \in RequiredText(field) :
           \E k \in req : GetProp(e, k) \notin {Undefined, JNull, JStr(<<>>)}
    /\ \A k \in RequiredFigure(field) : Kind(GetProp(e, k)) \in {"num", "str"}
\* the entries of items that are complete, in their order
RECURSIVE CompleteOnes(_, _, _)
CompleteOnes(field, items, i) ==
    IF i > Len(items) THEN <<>>
    ELSE (IF Complete(field, items[i]) THEN <<items[i]>> ELSE <<>>)
             \o CompleteOnes(field, items, i + 1)
\* out is the entry in but for the subfield sub
SameBut(in, out, sub) ==
    /\ Kind(out) = "obj"
    /\ \A k \in {"name", "city", "avgSalary", "openPositions"} : GetProp(out, k) = GetProp(in, k)
    /\ \A i \in DOMAIN out[2] : out[2][i][1] # K(sub) => out[2][i] \in {in[2][j] : j \in DOMAIN in[2]}
\* the entry out is the input entry in, as the field's step leaves it: a
\* company but for its roles, a city but for its rolesSalaries, which hold
\* the complete ones of the input in their order; any other entry unchanged
KeptAs(field, in, out) ==
    CASE field = "topCompanies" -> SameBut(in, out, "roles")
      [] field = "citySalaryData" ->
            /\ SameBut(in, out, "rolesSalaries")
            /\ LET r == GetProp(in, "rolesSalaries")
               IN  GetProp(out, "rolesSalaries") =
                       JArr(IF Kind(r) = "arr" THEN CompleteOnes("rolesSalaries", r[2], 1)
                            ELSE <<>>)
      [] OTHER -> out = in

\* the parsed value holds an array in field f
ParsedArray(f) == IsObjectLike(iparsed) /\ Kind(GetProp(iparsed, f)) = "arr"

\* C18: each filtered array field of the result holds exactly the entries of
\* the parsed array that have all required subfields, in their order (and
\* so does the rolesSalaries of each city kept).
C18_ExactlyCompleteEntries ==
    ipc = "returned" =>
        \A f \in FilteredFields :
            ParsedArray(f) =>
                LET kept == CompleteOnes(f, GetProp(iparsed, f)[2], 1)
                    out == GetProp(iresult, f)
                IN  /\ Kind(out) = "arr" /\ Len(out[2]) = Len(kept)
                    /\ \A i \in DOMAIN kept : KeptAs(f, kept[i], out[2][i])

\* C18 witness: of an incomplete and a complete entry of emergingTrends, in
\* this order, only the complete one was returned.
C18_Witness ==
    /\ ipc = "returned" /\ ParsedArray("emergingTrends")
    /\ Len(GetProp(iparsed, "emergingTrends")[2]) = 2
    /\ ~Complete("emergingTrends", GetProp(iparsed, "emergingTrends")[2][1])
    /\ Kind(GetProp(iparsed, "emergingTrends")[2][1]) = "obj"
    /\ GetProp(iresult, "emergingTrends") = JArr(<<GetProp(iparsed, "emergingTrends")[2][2]>>)

\* C19: once parseJSON has returned, generateIndustryInsights throws
\* nothing, whatever the value: an error is thrown only for the API key and
\* for a generation call that failed.
C19_ValidationNeverThrows ==
    ipc = "thrown" => iparsed = Undefined

\* C19 failing run: the text null is parsed by method 1 to null, and the
\* test of line 552 throws.
C19_Failing ==
    /\ ipc = "thrown" /\ itext = <<"null">> /\ iparsed = JNull
    /\ ierror = <<"Failed to generate insights: ", "Gemini API error: ",
                  "Failed to parse response: ", "Empty data object after parsing">>

\* the entries of the returned field f, and of the rolesSalaries of the
\* returned cities
ReturnedEntries(f) ==
    LET out == GetProp(iresult, f)
    IN  IF Kind(out) = "arr" THEN {out[2][i] : i \in DOMAIN out[2]} ELSE {}
ReturnedRoleSalaries ==
    UNION { LET r == GetProp(c, "rolesSalaries")
            IN  IF Kind(r) = "arr" THEN {r[2][i] : i \in DOMAIN r[2]} ELSE {} :
                c \in ReturnedEntries("citySalaryData") }

\* C20: no entry of citySalaryData, rolesSalaries, marketDemand or
\* skillBasedBoosts is returned whose salary or score is neither a number nor
\* a numeric string.
C20_NonNumericDropped ==
    ipc = "returned" =>
        /\ \A f \in {"marketDemand", "citySalaryData", "skillBasedBoosts"} :
               \A e \in ReturnedEntries(f) :
                   \A k \in RequiredFigure(f) : NumberOrNumericString(GetProp(e, k))
        /\ \A e \in ReturnedRoleSalaries :
               \A k \in RequiredFigure("rolesSalaries") : NumberOrNumericString(GetProp(e, k))

\* C20 failing run: the one entry of marketDemand has the demandScore "abc"
\* and is returned.
C20_Failing ==
    /\ ipc = "returned"
    /\ iparsed = Obj1("marketDemand", JArr(<<Obj2("skill", Str("c"), "demandScore", Str("abc"))>>))
    /\ itext = Stringify(iparsed)
    /\ GetProp(iresult, "marketDemand") = GetProp(iparsed, "marketDemand")

(***************************************************************************)
(* Further properties of parseJSON, checked under ParseSpec.                *)
(***************************************************************************)
\* C21: the text the generic methods (1 to 4) receive is the same for every
\* value of dataType: it is the text cleaned without the domain fixes.
C21_SameTextForEveryDataType ==
    (ppc = "methods" /\ Len(tried) \in 1..4) => cleanedText = cleanText(text, "general")

\* C21 failing run: with dataType 'comparison' method 1 received
\* {"a":",\n"} for the text {"a":""} and failed on it, while the text cleaned
\* without the domain fixes is {"a":""}, which JSON.parse accepts.
C21_Failing ==
    /\ text = <<"{", Q, "a", Q, ":", Q, Q, "}">> /\ dataType = "comparison"
    /\ Len(tried) = 1 /\ tried[1].m = 1 /\ tried[1].st # "ok"
    /\ cleanedText = <<"{", Q, "a", Q, ":", Q, ",", NL, Q, "}">>
    /\ cleanText(text, "general") = text
    /\ JSONParse(text).ok

\* how many more c than d the text s holds (0 when it holds no more)
Excess(s, c, d) == Max(0, CountTok(s, c) - CountTok(s, d))

\* C22: the balancing step of cleanText appends exactly as many } as there
\* are more { than }, then exactly as many ] as there are more [ than ], and
\* nothing else; the text the methods receive never has more { than } nor
\* more [ than ].
C22_BalancedByAppending ==
    (ppc # "start" /\ text # NotAString) =>
        LET before == cleaned(text, dataType)
        IN  /\ cleanedText = before \o Repeat("}", Excess(before, "{", "}"))
                                    \o Repeat("]", Excess(before, "[", "]"))
            /\ CountTok(cleanedText, "{") <= CountTok(cleanedText, "}")
            /\ CountTok(cleanedText, "[") <= CountTok(cleanedText, "]")

\* C22 witness: two braces and a bracket were appended.
C22_Witness ==
    /\ ppc = "methods" /\ text # NotAString
    /\ Excess(cleaned(text, dataType), "{", "}") = 2
    /\ Excess(cleaned(text, dataType), "[", "]") = 1
    /\ Len(cleanedText) = Len(cleaned(text, dataType)) + 3

(***************************************************************************)
(* Further properties of generateComparisonInsights, checked under Spec.    *)
(***************************************************************************)
\* C23: the backoff wait occurs only between attempts: a wait is started
\* only after an attempt that is not the last one allowed.
C23_WaitOnlyBetweenAttempts ==
    \A i \in DOMAIN waits : waits[i] < MAX_RETRIES

\* C23 failing run: three attempts ended incomplete or in an error, and the
\* function is waiting after the third, with no generation call to follow.
C23_Failing ==
    /\ pc = "backoff" /\ attempts = MAX_RETRIES /\ calls = MAX_RETRIES
    /\ waits = <<1, 2, 3>>
    /\ ~isComplete /\ inFlight = 0

\* C24: at most one generation call is in flight at any time, and one is in
\* flight only while the function awaits it: not during parse, validation
\* or backoff, nor once the function has ended.
C24_OneCallInFlight ==
    /\ inFlight \in {0, 1}
    /\ inFlight = 1 <=> pc = "requesting"
    /\ calls = attempts

\* C24 witness: the second generation call is in flight, after the first
\* was settled and its backoff has ended.
C24_Witness ==
    /\ pc = "requesting" /\ calls = 2 /\ inFlight = 1
    /\ Len(history) = 1 /\ waits = <<1>>

\* generateComparisonInsights returned data whose _meta.isComplete is false
ReturnedPartial == pc = "returned" /\ GetProp(MetaOf(result), "isComplete") = JFalse

\* C25: when generateComparisonInsights returns data with _meta.isComplete
\* false the controller answers 207 with _meta.status 'partial', never with
\* an error; it answers 500 only when generateComparisonInsights threw or
\* returned nothing.
C25_PartialNotAnError ==
    cstatus # 0 =>
        /\ ReturnedPartial =>
               cstatus = 207 /\ GetProp(GetProp(cbody, "_meta"), "status") = Str("partial")
        /\ cstatus = 500 => pc = "thrown" \/ ~Truthy(result)

\* C25 failing run: every attempt parsed an object whose topCities hold null
\* in place of a city; generateComparisonInsights returned it with
\* _meta.isComplete false, and the controller answered 500.
C25_Failing ==
    /\ ReturnedPartial /\ cstatus = 500
    /\ attempts = MAX_RETRIES /\ AllParsed
    /\ GetProp(GetProp(GetProp(result, "countrySalaryComparison"), "currentCountry"),
               "topCities") = JArr(<<JNull>>)
    /\ GetProp(cbody, "error") = Str("TypeError")

\* how many more closers c than openers o the first i tokens of s hold
Deficit(s, i, o, c) == CountTok(SubSeq(s, 1, i), c) - CountTok(SubSeq(s, 1, i), o)
\* the token at index i of s is a closer with no opener of its kind left to
\* match it: it makes the deficit of its kind greater than it ever was
Unmatched(s, i) ==
    \E k \in {<<"{", "}">>, <<"[", "]">>} :
        /\ s[i] = k[2]
        /\ Deficit(s, i, k[1], k[2]) > 0
        /\ \A j \in 1..(i - 1) : Deficit(s, j, k[1], k[2]) < Deficit(s, i, k[1], k[2])
\* s without the tokens at the indices of D, in order
RECURSIVE Without(_, _, _)
Without(s, D, i) ==
    IF i > Len(s) THEN <<>>
    ELSE (IF i \in D THEN <<>> ELSE <<s[i]>>) \o Without(s, D, i + 1)

\* the scan of method 7 ran in this call
ScanRan == Len(tried) = NumMethods /\ tried[NumMethods].st # "skip"

\* C26: after the scan of method 7 every prefix of the text holds at most as
\* many } as { and at most as many ] as [; the scan removed exactly the
\* closers that had no opener of their kind to match, and left every other
\* token in its place.
C26_ScanRemovesUnmatchedClosers ==
    ScanRan =>
        LET fixedText == RemoveExcessClosers(cleanedText)
        IN  /\ \A i \in 0..Len(fixedText) :
                   /\ Deficit(fixedText, i, "{", "}") <= 0
                   /\ Deficit(fixedText, i, "[", "]") <= 0
            /\ fixedText = Without(cleanedText,
                                   {i \in DOMAIN cleanedText : Unmatched(cleanedText, i)}, 1)

\* C26 witness: the text [} was balanced to [}], the scan removed the brace
\* and kept the bracket, and method 7 returned the empty array.
C26_Witness ==
    /\ ScanRan /\ tried[NumMethods].st = "ok"
    /\ text = <<"[", "}">> /\ cleanedText = <<"[", "}", "]">>
    /\ RemoveExcessClosers(cleanedText) = <<"[", "]">>
    /\ ppc = "returned" /\ presult = JArr(<<>>)

(***************************************************************************)
(* The order of the closers the balancing step appends, under ParseSpec.   *)
(***************************************************************************)
Opener(c) == IF c = "}" THEN "{" ELSE "["

RECURSIVE OpenDelims(_, _, _, _)
\* the delimiters that s leaves open, the most recently opened one last,
\* read from index i outside string literals; <<"bad">> when a closer does
\* not close the delimiter opened last
OpenDelims(s, i, stack, inStr) ==
    IF i > Len(s) THEN stack
    ELSE IF inStr
         THEN IF s[i] = BSL THEN OpenDelims(s, i + 2, stack, TRUE)
              ELSE OpenDelims(s, i + 1, stack, s[i] # Q)
    ELSE IF s[i] = Q THEN OpenDelims(s, i + 1, stack, TRUE)
    ELSE IF s[i] \in {"{", "["} THEN OpenDelims(s, i + 1, Append(stack, s[i]), FALSE)
    ELSE IF s[i] \in {"}", "]"}
         THEN IF stack # <<>> /\ stack[Len(stack)] = Opener(s[i])
              THEN OpenDelims(s, i + 1, SubSeq(stack, 1, Len(stack) - 1), FALSE)
              ELSE <<"bad">>
    ELSE OpenDelims(s, i + 1, stack, FALSE)

WellNested(s) == OpenDelims(s, 1, <<>>, FALSE) = <<>>

\* s is well nested so far and stops inside an array in an object or inside
\* an object in an array
CutInsideNested(s) ==
    LET open == OpenDelims(s, 1, <<>>, FALSE)
    IN  /\ open # <<"bad">>
        /\ \E i \in DOMAIN open : open[i] = "{"
        /\ \E i \in DOMAIN open : open[i] = "["

\* C27: the closers cleanText appends close the most recently opened
\* delimiter first: when the text before balancing is well nested so far and
\* stops inside an array in an object, or an object in an array, the text
\* the methods receive is well nested.
C27_ClosersInNestingOrder ==
    (ppc # "start" /\ text # NotAString /\ CutInsideNested(cleaned(text, dataType)))
        => WellNested(cleanedText)

\* C27 failing state: {"a":[1 was balanced to {"a":[1}] with the brace before
\* the bracket, no method could read it and parseJSON threw.
C27_Failing ==
    /\ text = <<"{", Q, "a", Q, ":", "[", "1">>
    /\ cleanedText = text \o <<"}", "]">>
    /\ ~WellNested(cleanedText)
    /\ ppc = "thrown"

(***************************************************************************)
(* What generateComparisonInsights keeps in data across failing attempts,   *)
(* checked under Spec.                                                      *)
(***************************************************************************)
\* attempt i got a value from parseJSON
ParsedAt(i) == history[i].kind \in {"complete", "incomplete"}
\* the most recent attempt that got a value from parseJSON, 0 when none did
LastParsed ==
    IF \E i \in DOMAIN history : ParsedAt(i)
    THEN CHOOSE i \in DOMAIN history :
             ParsedAt(i) /\ \A j \in DOMAIN history : ParsedAt(j) => j <= i
    ELSE 0
\* data as attempt i found it
DataBefore(i) == IF i = 1 THEN JNull ELSE history[i - 1].data
\* v is w with roleComparison and salaryExpectationAnalysis filled where w
\* had none, and with _meta
KeepsSections(v, w) ==
    /\ IsObjectLike(v) /\ IsObjectLike(w)
    /\ Kind(w) = "obj" => Kind(v) = "obj"
    /\ \A key \in {"countrySalaryComparison", "roleComparison", "salaryExpectationAnalysis"} :
           Truthy(GetProp(w, key)) => GetProp(v, key) = GetProp(w, key)

\* an attempt that ends in a generation or parse error leaves data as it
\* found it; when the last attempt of an exhausted call ended so and the call
\* returned, the value returned is the one the most recent parsing attempt
\* left, with _meta.attempts 3
FramePart ==
    /\ \A i \in DOMAIN history : ~ParsedAt(i) => history[i].data = DataBefore(i)
    /\ (pc = "returned" /\ Len(history) = MAX_RETRIES /\ ~ParsedAt(MAX_RETRIES)) =>
           /\ LastParsed > 0
           /\ KeepsSections(result, history[LastParsed].data)
           /\ GetProp(MetaOf(result), "attempts") = Num("3")
           /\ GetProp(MetaOf(result), "isComplete") = JFalse

\* C28: data is overwritten only by a parseJSON call that returned: an
\* attempt that ends in a generation or parse error leaves it as it was, the
\* value returned on exhaustion is the one the most recent parsing attempt
\* left (with _meta.attempts 3), and the call throws only when no attempt
\* parsed.
C28_KeepsLastParsed ==
    /\ FramePart
    /\ (pc = "thrown" /\ apiKeySet) => LastParsed = 0

\* C28 failing state: the first attempt parsed the text null, the two
\* attempts after it raised a generation error, and the call threw a
\* TypeError although an attempt had parsed.
C28_Failing ==
    /\ pc = "thrown" /\ apiKeySet /\ Len(history) = MAX_RETRIES
    /\ history[1] = [kind |-> "incomplete", data |-> JNull]
    /\ history[2].kind = "generation error" /\ history[3].kind = "generation error"
    /\ error[1] = "TypeError"

\* a state in which the frame part of C28 is exercised: an object was
\* parsed, a later attempt failed, and the object came back
C28_FrameReached ==
    /\ pc = "returned" /\ Len(history) = MAX_RETRIES
    /\ ParsedAt(1) /\ Kind(history[1].data) = "obj"
    /\ history[2].kind = "parse error" /\ history[3].kind = "generation error"

(***************************************************************************)
(* What method 6 of parseJSON can add, over the texts of ParseSpec.         *)
(***************************************************************************)
\* method 6 was entered with its pattern found on the cleaned text
Method6Ran == Len(tried) >= 6 /\ tried[6].st # "skip"

\* the text method 6 hands to JSON.parse is the cleaned text itself, and
\* method 6 never returns a value
Method6AddsNothing ==
    /\ (ppc \notin {"idle", "start"} /\ text # NotAString) =>
           Balance(cleanedText) = cleanedText
    /\ Len(tried) >= 6 => tried[6].st # "ok"

\* C29: method 6 can contribute a result: among the texts of the model there
\* is one on which methods 1 to 5 fail (the libraries of methods 2 and 3
\* rejecting it) and method 6 returns a value.
C29_Method6CanContribute ==
    \E t \in ParseTexts \ {NotAString}, d \in DataTypes :
        LET c == cleanText(t, d)
        IN  /\ DirectParsing(c).st # "ok"
            /\ TruncationFixing(c).st # "ok"
            /\ RolesSalariesFixing(c).st # "ok"
            /\ NestedObjectsFixing(c).st = "ok"

\* C29 failing state: on {"currentCountry":{"a" 1}} methods 1 to 5 failed,
\* method 6 found its pattern, parsed the cleaned text unchanged and failed
\* as method 1 had.
C29_Failing ==
    /\ text = <<"{", Q, "currentCountry", Q, ":", "{", Q, "a", Q, SP, "1", "}", "}">>
    /\ Method6Ran /\ tried[6].st = "fail"
    /\ \A i \in 1..5 : tried[i].st # "ok"
    /\ Balance(cleanedText) = cleanedText

(***************************************************************************)
(* When parseJSON takes a fallback as supplied, checked under ParseSpec.    *)
(***************************************************************************)
\* no method returned a value: all seven failed, or cleanText threw before
\* the first
TotalFailure == AllMethodsFailed \/ (text = NotAString /\ tried = <<>>)
NonEmptyObject(v) == v # Undefined /\ Kind(v) = "obj" /\ Len(v[2]) > 0

\* C30: a call that ended in total failure returned the fallback if the
\* fallback passed is an object with at least one key, and threw if none
\* was passed or {} was; with a fallback object that has a key parseJSON
\* never throws, whatever the text, an error of cleanText included.
C30_SuppliedMeansNonEmpty ==
    /\ (PSettled /\ TotalFailure /\ fallbackData \in {Undefined, JObj(<<>>)}) =>
           ppc = "thrown"
    /\ NonEmptyObject(fallbackData) =>
           /\ ppc # "thrown"
           /\ (PSettled /\ TotalFailure) => presult = fallbackData

\* C30 witness: the text was no string, cleanText threw before any method
\* was tried, and the fallback object passed, which has a key, was returned.
C30_Witness ==
    /\ ppc = "returned" /\ presult = fallbackData
    /\ NonEmptyObject(fallbackData)
    /\ text = NotAString /\ tried = <<>> /\ perror = TypeErrorOf("text.replace")
====
